---- MODULE Spec2Model ----
(***************************************************************************)
(* A model of go-rag-ai: the conversation memory of ChatBot (chat.go), the *)
(* retrieval Query (chat.go), the pgvector-backed VectorStore (store.go),  *)
(* the Embedder (embedder.go) and the LLM clients (internal/llm).          *)
(*                                                                         *)
(* The specifications of the module:                                       *)
(*   Spec       one goroutine drives ChatBot.Query, as RunInteractive does *)
(*   SpecConc   several goroutines call ChatBot.Query on one ChatBot and   *)
(*              the active backend is switched meanwhile                   *)
(*   SpecStore  the VectorStore operations against the documents table     *)
(*   SpecLLM    NewClient and the clients' Generate                        *)
(*   SpecRAG    chunks are stored and the retrieval Query is called        *)
(*   SpecChunk  Embedder.ChunkText, one step per iteration of its loop     *)
(*              (SpecChunkFair: with weak fairness of the iteration)       *)
(*   SpecEmbed  Embedder.GetEmbedding on several Embedders                 *)
(*   SpecWire   the request body of the Gemini and Anthropic clients       *)
(*   SpecIngest main: the data files are chunked, embedded and stored      *)
(*   SpecLoop   RunInteractive with its reader goroutines, in the version  *)
(*              of chat.go and in that of part_001 (SpecLoopFair: with     *)
(*              weak fairness of every goroutine's steps)                  *)
(***************************************************************************)
EXTENDS Integers, Sequences, FiniteSets, TLC

VARIABLES
    conversationHistory, \* ChatBot.conversationHistory
    clock,               \* time.Now(), one tick per AddToHistory
    config,              \* ChatBot.config: the provider, model and system prompt in use
    pc,                  \* Spec: where the single caller of Query stands
    question,            \* Spec: the argument of the last call of Query
    messages,            \* Spec: GroqChatRequest.Messages of the last request
    response,            \* Spec: the HTTP outcome the last request met
    ret,                 \* Spec: what the last Query returned
    calls,               \* the calls of Query so far: question and outcome of each
    shown,               \* Spec: number of messages the last command printed
    documents,           \* the rows of table documents, in insertion order
    uuids,               \* how many ids uuid.New() has handed out
    storeRet,            \* the last VectorStore call: its arguments and what it returned
    callers,             \* SpecConc: per goroutine, where its call of Query stands
    queries,             \* SpecConc: calls of Query started
    switches,            \* SpecConc: calls of switchBackend made
    switchRet,           \* SpecConc: the last switchBackend call and its error
    llmClient,           \* SpecLLM: the client the last successful NewClient returned
    llmCreate,           \* SpecLLM: the last call of NewClient and what it returned
    llmPc,               \* SpecLLM: where the caller of Generate stands
    httpCalls,           \* SpecLLM: requests handed to http.Client.Do so far
    llmRet,              \* SpecLLM: the response the last Generate met and what it returned
    embedCalls,          \* SpecEmbed: the calls of GetEmbedding made, with their results
    chunkPc,             \* SpecChunk: where the call of ChunkText stands
    chunkCall,           \* SpecChunk: the receiver and arguments of the call
    chunkText,           \* SpecChunk: ChunkText's text, after strings.TrimSpace
    chunkI,              \* SpecChunk: ChunkText's i, the start of the next window
    chunks,              \* SpecChunk: ChunkText's chunks
    chunkStarts,         \* SpecChunk: for each chunk of chunks, the i of its window
    ragPc,               \* SpecRAG: where the caller of the retrieval Query stands
    rag,                 \* SpecRAG: the last call of the retrieval Query: its steps so far
    ragRet,              \* SpecRAG: what the last retrieval Query returned
    mainPc,              \* SpecIngest: where main stands
    mainRun,             \* SpecIngest: main's locals: existingFiles, chunks, count, ...
    disk,                \* SpecIngest: the data files of the working directory
    runs,                \* SpecIngest: how many times the program has been started
    wire,                \* SpecWire: the last request body built by a Generate
    loopPc,              \* SpecLoop: where RunInteractive's own goroutine stands
    loopVersion,         \* SpecLoop: which RunInteractive runs (chat.go or part_001)
    streaming,           \* SpecLoop: RunInteractive's streaming flag
    stdin,               \* SpecLoop: standard input: open, at end of file or failed
    readers,             \* SpecLoop: the reader goroutines alive, each scanning or sending
    input,               \* SpecLoop: the line last taken, before strings.TrimSpace
    loopRet,             \* SpecLoop: what RunInteractive returned
    flagUse              \* SpecLoop: the goroutines that have read or written streaming

sessionVars == <<conversationHistory, clock, config, shown>>
seqVars == <<pc, question, messages, response, ret, calls>>
chatVars == <<sessionVars, seqVars>>
storeVars == <<documents, uuids, storeRet>>
concVars == <<callers, queries, switches, switchRet>>
llmVars == <<llmClient, llmCreate, llmPc, httpCalls, llmRet>>
baseVars == <<chatVars, storeVars, concVars>>
embedVars == <<embedCalls>>
chunkVars == <<chunkPc, chunkCall, chunkText, chunkI, chunks, chunkStarts>>
ragVars == <<ragPc, rag, ragRet>>
mainVars == <<mainPc, mainRun, disk, runs>>
wireVars == <<wire>>
loopVars == <<loopPc, loopVersion, streaming, stdin, readers, input, loopRet, flagUse>>
restVars == <<wireVars, loopVars>>
libVars == <<llmVars, embedVars, chunkVars, ragVars, mainVars, restVars>>
vars == <<baseVars, libVars>>

(***************************************************************************)
(* Bounds of the model.                                                    *)
(***************************************************************************)
\* Query is dispatched only while the reply still fits in MaxTurns turns.
MaxTurns == 26
\* Failed queries in one run of Spec.
MaxFailures == 1
\* Questions other than the first of Questions in one run of Spec.
MaxVaried == 1
\* Calls of StoreChunk in one run of SpecStore.
MaxStores == 2
\* Calls of Query, over all goroutines, in one run of SpecConc.
MaxQueries == 2
\* Calls of switchBackend in one run of SpecConc.
MaxSwitches == 2
\* Requests sent by Generate in one run of SpecLLM.
MaxGenerates == 2
\* Calls of GetEmbedding in one run of SpecEmbed.
MaxEmbeds == 3
\* Length of the texts embedded under SpecEmbed.
MaxEmbedLen == 2
\* Length of the texts chunked under SpecChunk.
MaxTextLen == 5
\* Largest Config.ChunkSize tried under SpecChunk.
MaxChunkSize == 4
\* SpecIngest: starts of the program
MaxRuns == 2
\* SpecWire: messages handed to one Generate
MaxMessages == 3
\* SpecLoop: lines typed on standard input
MaxLines == 2

(***************************************************************************)
(* Program constants.                                                      *)
(***************************************************************************)
\* chat.go:83  if len(cb.conversationHistory) > 20
HistoryWindow == 20
\* chat.go:127  if resp.StatusCode != 200
StatusOK == 200
\* store.go:55  embedding vector(384)
Dim == 384
\* chat.go:411  cb.vectorStore.Search(ctx, queryEmbedding, 3)
TopK == 3
\* part_000:84  embedding := make([]float32, 384)
EmbeddingLen == 384
\* part_000:89  hash = (hash*31 + int(char)) % 1000000
HashMod == 1000000

\* config.go:78-83  the Config LoadConfig returns (provider groq by default)
DefaultConfig ==
    [Provider |-> "groq", ChatModel |-> "llama-3.3-70b-versatile",
     SystemPrompt |-> "You are a helpful assistant."]
Questions == {"q1", "q2"}
Answers == {"a1"}

(***************************************************************************)
(* chat.go:62-69  AddToHistory                                             *)
(***************************************************************************)
ConversationMessage(role, content, now) ==
    [Role |-> role, Content |-> content, Timestamp |-> now]

AddToHistoryTrimmed(hist, role, content, now) ==
    LET all == Append(hist, ConversationMessage(role, content, now))
    IN  IF Len(all) > HistoryWindow
        THEN SubSeq(all, Len(all) - HistoryWindow + 1, Len(all))
        ELSE all

AddToHistoryCoalesced(hist, role, content, now) ==
    IF hist # <<>> /\ hist[Len(hist)].Role = role
    THEN [hist EXCEPT ![Len(hist)] = ConversationMessage(role, content, now)]
    ELSE Append(hist, ConversationMessage(role, content, now))

AddToHistory(hist, role, content, now) ==
    Append(hist, ConversationMessage(role, content, now))

(***************************************************************************)
(* chat.go:76-92  the outbound message list                                *)
(***************************************************************************)
GroqMessage(role, content) == [Role |-> role, Content |-> content]

HistoryStartOffByOne(hist) ==
    IF Len(hist) > HistoryWindow THEN Len(hist) - HistoryWindow + 1 ELSE 0

HistoryStart(hist) ==
    IF Len(hist) > HistoryWindow THEN Len(hist) - HistoryWindow ELSE 0

BuildMessages(hist, systemPrompt) ==
    LET historyStart == HistoryStart(hist)
    IN  <<GroqMessage("system", systemPrompt)>> \o
        [i \in 1..(Len(hist) - historyStart) |->
            GroqMessage(hist[historyStart + i].Role, hist[historyStart + i].Content)]

(***************************************************************************)
(* chat.go:115-145  what Query makes of the HTTP exchange.  A response is  *)
(* the outcome of client.Do / io.ReadAll / json.Unmarshal:                 *)
(*   do      "ok", or "error" (transport failure, timeout, ctx cancelled)  *)
(*   read    "ok", or "error" (io.ReadAll fails)                           *)
(*   status  the HTTP status code                                          *)
(*   json    "ok", or "malformed" (json.Unmarshal fails)                   *)
(*   choices the contents of groqResp.Choices                              *)
(***************************************************************************)
HTTPResponse(do, read, status, json, choices) ==
    [do |-> do, read |-> read, status |-> status, json |-> json, choices |-> choices]

NoResponse == HTTPResponse("none", "none", 0, "none", <<>>)

Responses ==
    { HTTPResponse("error", "ok", 0, "ok", <<>>),
      HTTPResponse("ok", "error", StatusOK, "ok", <<>>),
      HTTPResponse("ok", "ok", 500, "ok", <<"a1">>),
      HTTPResponse("ok", "ok", 500, "malformed", <<>>),
      HTTPResponse("ok", "ok", StatusOK, "malformed", <<>>),
      HTTPResponse("ok", "ok", StatusOK, "ok", <<>>) }
    \cup { HTTPResponse("ok", "ok", StatusOK, "ok", <<a>>) : a \in Answers }
    \cup { HTTPResponse("ok", "ok", StatusOK, "ok", <<a, "a2">>) : a \in Answers }

QueryResultNoEmptyCheck(resp) ==
    IF resp.do # "ok" THEN [answer |-> "", err |-> "failed to call Groq API"]
    ELSE IF resp.read # "ok" THEN [answer |-> "", err |-> "failed to read response"]
    ELSE IF resp.status # StatusOK THEN [answer |-> "", err |-> "Groq API error"]
    ELSE IF resp.json # "ok" THEN [answer |-> "", err |-> "failed to unmarshal response"]
    ELSE [answer |-> IF resp.choices = <<>> THEN "" ELSE resp.choices[1], err |-> "nil"]

QueryResult(resp) ==
    IF resp.do # "ok" THEN [answer |-> "", err |-> "failed to call Groq API"]
    ELSE IF resp.read # "ok" THEN [answer |-> "", err |-> "failed to read response"]
    ELSE IF resp.status # StatusOK THEN [answer |-> "", err |-> "Groq API error"]
    ELSE IF resp.json # "ok" THEN [answer |-> "", err |-> "failed to unmarshal response"]
    ELSE IF Len(resp.choices) = 0 THEN [answer |-> "", err |-> "no response from model"]
    ELSE [answer |-> resp.choices[1], err |-> "nil"]

(***************************************************************************)
(* Spec: ChatBot.Query called by one goroutine.  The call is split where   *)
(* it blocks: QueryDispatch runs chat.go:74-116 up to client.Do, and       *)
(* QueryReturn runs chat.go:116-145 on the outcome of the exchange.        *)
(***************************************************************************)
Failures(hist) ==
    Cardinality({ i \in 1..Len(hist) :
        hist[i].Role = "user" /\ (i = Len(hist) \/ hist[i + 1].Role = "user") })

Varied(hist) ==
    Cardinality({ i \in 1..Len(hist) : hist[i].Role = "user" /\ hist[i].Content # "q1" })

NoReturn == [answer |-> "", err |-> "nil"]

\* chat.go:72  a call of Query is entered with its question; chat.go:146-147
\* and the error returns before: it has returned, with or without an error
QueryCall(q) == [question |-> q, state |-> "inflight"]

QueryReturned(cs, err) ==
    [cs EXCEPT ![Len(cs)].state = IF err = "nil" THEN "ok" ELSE "failed"]

InitChat ==
    /\ conversationHistory = <<>>
    /\ clock = 0
    /\ config = DefaultConfig
    /\ pc = "idle"
    /\ question = ""
    /\ messages = <<>>
    /\ response = NoResponse
    /\ ret = NoReturn
    /\ calls = <<>>
    /\ shown = 0

(***************************************************************************)
(* store.go: the documents table.  The database is the external party: its *)
(* part is modelled from the statements the code sends it.                 *)
(*                                                                         *)
(* A vector is a []float32 of dim coordinates of which all but the first   *)
(* two (head) are 0; coordinates are non-negative, as GetEmbedding's are,  *)
(* and never all zero.                                                     *)
(***************************************************************************)
Vector(dim, head) == [dim |-> dim, head |-> head]

VecLen(v) == v.dim

RECURSIVE DotUpTo(_, _, _)
DotUpTo(a, b, n) == IF n = 0 THEN 0 ELSE DotUpTo(a, b, n - 1) + a.head[n] * b.head[n]

Dot(a, b) ==
    IF Len(a.head) = 2 /\ Len(b.head) = 2
    THEN a.head[1] * b.head[1] + a.head[2] * b.head[2]
    ELSE DotUpTo(a, b, IF Len(a.head) < Len(b.head) THEN Len(a.head) ELSE Len(b.head))

\* Vectors of the column's dimension to store and to search for (the third
\* is equally near the first two), and one of another length.
Embeddings == { Vector(Dim, <<1, 0>>), Vector(Dim, <<0, 1>>) }
QueryEmbeddings == Embeddings \cup { Vector(Dim, <<1, 1>>) }
BadEmbeddings == { Vector(3, <<1, 0>>) }

\* part_000:64-67  the Metadata ChunkText gives a chunk: its source and, as
\* "chunk", fmt.Sprintf("%d", n)
Metadata(source, n) == [source |-> source, chunk |-> ToString(n)]

\* part_000:11-17  TextChunk as ChunkText fills it (ID is left empty)
TextChunk(content, source, metadata) ==
    [ID |-> "", Content |-> content, Source |-> source, Metadata |-> metadata]
Chunks == { TextChunk("alpha", "data.txt", Metadata("data.txt", 0)),
            TextChunk("beta", "data.txt", Metadata("data.txt", 1)) }

\* store.go:109  1 - (embedding <=> $1): the cosine similarity.  With
\* non-negative coordinates it is ordered as its square, kept here as the
\* exact fraction num/den.
Similarity(a, q) == [num |-> Dot(a, q) * Dot(a, q), den |-> Dot(a, a) * Dot(q, q)]

SimGE(s, t) == s.num * t.den >= t.num * s.den
SimEq(s, t) == s.num * t.den = t.num * s.den

\* store.go:75  uuid.New(): an id no earlier call was given
NewUUIDRepeats(n) == 1

NewUUID(n) == n + 1

\* store.go:80-86  INSERT ... ON CONFLICT (id) DO UPDATE SET content, embedding
Upsert(docs, row) ==
    IF \E i \in 1..Len(docs) : docs[i].id = row.id
    THEN [i \in 1..Len(docs) |->
            IF docs[i].id = row.id
            THEN [docs[i] EXCEPT !.content = row.content, !.embedding = row.embedding]
            ELSE docs[i]]
    ELSE Append(docs, row)

\* store.go:55  the column type vector(384) refuses any other dimension
ColumnAccepts(embedding) == VecLen(embedding) = Dim

\* store.go:136  DELETE FROM documents
DeleteAll(docs) == <<>>

\* store.go:143  SELECT COUNT(*) FROM documents
CountRows(docs) == Len(docs)

\* store.go:97-102, 125  one row of the result
SearchResult(row, q) ==
    [ID |-> row.id, Content |-> row.content, Source |-> row.source,
     Similarity |-> Similarity(row.embedding, q)]

\* store.go:112  ORDER BY embedding <=> $1: the rows by ascending distance.
\* The statement names no second sort key, so rows at equal distance come in
\* whatever order the executor produces.
Orderings(docs, q) ==
    { p \in [1..Len(docs) -> 1..Len(docs)] :
        /\ \A i, j \in 1..Len(docs) : i # j => p[i] # p[j]
        /\ \A i \in 1..(Len(docs) - 1) :
              SimGE(Similarity(docs[p[i]].embedding, q),
                    Similarity(docs[p[i + 1]].embedding, q)) }

Min(a, b) == IF a < b THEN a ELSE b

\* store.go:108-131  the rows Search can return for an executed statement
SearchRows(docs, q, topK) ==
    { [i \in 1..Min(topK, Len(docs)) |-> SearchResult(docs[p[i]], q)] :
        p \in Orderings(docs, q) }

\* store.go:105-132  Search.  A query vector of another dimension makes the
\* distance operator fail on the first row it is applied to; with no row to
\* apply it to, a sequential scan returns no row and no error, while an index
\* scan fails on the index's own centres: either can be the plan.
SearchNoRowsIsError(docs, q, topK, db) ==
    IF db # "ok" \/ VecLen(q) # Dim \/ docs = <<>>
    THEN {[results |-> <<>>, err |-> "failed to search"]}
    ELSE {[results |-> r, err |-> "nil"] : r \in SearchRows(docs, q, topK)}

SearchOutcomes(docs, q, topK, db) ==
    IF db # "ok" THEN {[results |-> <<>>, err |-> "failed to search"]}
    ELSE IF VecLen(q) # Dim
    THEN {[results |-> <<>>, err |-> "failed to search"]}
         \cup (IF docs = <<>> THEN {[results |-> <<>>, err |-> "nil"]} ELSE {})
    ELSE {[results |-> r, err |-> "nil"] : r \in SearchRows(docs, q, topK)}

NoStoreRet ==
    [op |-> "none", db |-> "ok", chunk |-> TextChunk("", "", Metadata("", 0)), embedding |-> Vector(0, <<0, 0>>),
     topK |-> 0, err |-> "nil", results |-> <<>>, count |-> 0]

InitStore ==
    /\ documents = <<>>
    /\ uuids = 0
    /\ storeRet = NoStoreRet

(***************************************************************************)
(* internal/llm/factory.go:7-22  NewClient: the client for a provider name *)
(***************************************************************************)
NoClient == [Provider |-> "", Model |-> ""]

NewClientDefaultsToGroq(provider, apiKey, model) ==
    IF provider \in {"groq", "openai", "anthropic", "gemini", "openrouter"}
    THEN [client |-> [Provider |-> provider, Model |-> model], err |-> "nil"]
    ELSE [client |-> [Provider |-> "groq", Model |-> model], err |-> "nil"]

NewClientFoldsCase(provider, apiKey, model) ==
    CASE provider \in {"groq", "GROQ"} -> [client |-> [Provider |-> "groq", Model |-> model], err |-> "nil"]
      [] provider \in {"openai", "OpenAI"} -> [client |-> [Provider |-> "openai", Model |-> model], err |-> "nil"]
      [] provider \in {"anthropic", "gemini", "openrouter"} -> [client |-> [Provider |-> provider, Model |-> model], err |-> "nil"]
      [] OTHER -> [client |-> NoClient, err |-> "unsupported LLM provider"]

NewClient(provider, apiKey, model) ==
    CASE provider = "groq" -> [client |-> [Provider |-> "groq", Model |-> model], err |-> "nil"]
      [] provider = "openai" -> [client |-> [Provider |-> "openai", Model |-> model], err |-> "nil"]
      [] provider = "anthropic" -> [client |-> [Provider |-> "anthropic", Model |-> model], err |-> "nil"]
      [] provider = "gemini" -> [client |-> [Provider |-> "gemini", Model |-> model], err |-> "nil"]
      [] provider = "openrouter" -> [client |-> [Provider |-> "openrouter", Model |-> model], err |-> "nil"]
      [] OTHER -> [client |-> NoClient, err |-> "unsupported LLM provider"]

(***************************************************************************)
(* SpecConc: goroutines calling ChatBot.Query on one ChatBot.  Query and   *)
(* AddToHistory take no lock, so each access of cb.conversationHistory is  *)
(* a step of its own: the append at chat.go:64 reads the slice, and then   *)
(* writes back the slice it read with the new message added.               *)
(***************************************************************************)
Callers == {"g1", "g2"}

\* The question asked under SpecConc: the callers differ, their questions need not.
ConcQuestions == {"q1"}

\* The outcomes of the exchange tried under SpecConc: an error status and an answer.
ConcResponses ==
    { HTTPResponse("ok", "ok", 500, "ok", <<>>),
      HTTPResponse("ok", "ok", StatusOK, "ok", <<"a1">>) }

\* The provider names tried for a switch: two that NewClient knows, two it does not.
SwitchProviders == {"openai", "gemini", "OpenAI", ""}

IdleCaller ==
    [pc |-> "idle", question |-> "", loaded |-> <<>>, model |-> "", messages |-> <<>>,
     switched |-> FALSE, ret |-> NoReturn]

InitConc ==
    /\ callers = [g \in Callers |-> IdleCaller]
    /\ queries = 0
    /\ switches = 0
    /\ switchRet = [provider |-> "", err |-> "nil"]

(***************************************************************************)
(* internal/llm: the clients NewClient returns and their Generate.         *)
(* A response body is the list of its completion candidates, each the list *)
(* of its text parts; the OpenAI-shaped and Anthropic bodies carry one     *)
(* text per candidate, a Gemini candidate carries content.parts.           *)
(***************************************************************************)
\* The provider names tried: the five NewClient knows, and others.
ProviderNames ==
    {"groq", "openai", "anthropic", "gemini", "openrouter", "", "OpenAI", "GROQ", "cohere"}

\* The model names tried; the second is not a valid escape in a URL path.
ModelNames == {"m1", "m%zz"}

\* gemini_client.go:102-108  the model is part of the URL http.NewRequestWithContext
\* parses; the other clients post to a constant URL.
RequestBuilds(c) == c.Provider # "gemini" \/ c.Model # "m%zz"

LLMResponse(do, read, status, json, candidates) ==
    [do |-> do, read |-> read, status |-> status, json |-> json, candidates |-> candidates]

NoLLMResponse == LLMResponse("none", "none", 0, "none", <<>>)

\* The outcomes of the exchange: transport failure, a body that cannot be read,
\* statuses 500, 201 and 200, a body that is not JSON, and bodies of zero, one
\* (with no part, with one) and two candidates.
LLMResponses ==
    { LLMResponse("failed", "none", 0, "none", <<>>),
      LLMResponse("ok", "failed", StatusOK, "none", <<>>),
      LLMResponse("ok", "ok", 500, "bad", <<>>),
      LLMResponse("ok", "ok", 500, "ok", << <<"a1">> >>),
      LLMResponse("ok", "ok", 201, "ok", << <<"a1">> >>),
      LLMResponse("ok", "ok", StatusOK, "bad", <<>>),
      LLMResponse("ok", "ok", StatusOK, "ok", <<>>),
      LLMResponse("ok", "ok", StatusOK, "ok", << <<>> >>),
      LLMResponse("ok", "ok", StatusOK, "ok", << <<"a1">> >>),
      LLMResponse("ok", "ok", StatusOK, "ok", << <<"a1">>, <<"a2">> >>) }

\* openai_client.go:89, gemini_client.go:130, anthropic_client.go:116
NoContent(provider, candidates) ==
    IF provider = "gemini"
    THEN Len(candidates) = 0 \/ Len(candidates[1]) = 0
    ELSE Len(candidates) = 0

\* openai_client.go:92, gemini_client.go:133, anthropic_client.go:119: a field
\* the body leaves out decodes to the empty string
FirstText(candidates) == IF candidates[1] = <<>> THEN "" ELSE candidates[1][1]

GenerateParsesBeforeStatus(provider, resp) ==
    IF resp.do # "ok" THEN [text |-> "", err |-> "call API"]
    ELSE IF resp.read # "ok" THEN [text |-> "", err |-> "read response"]
    ELSE IF resp.json # "ok" THEN [text |-> "", err |-> "unmarshal response"]
    ELSE IF resp.status # StatusOK THEN [text |-> "", err |-> "API error"]
    ELSE IF NoContent(provider, resp.candidates) THEN [text |-> "", err |-> "no choices"]
    ELSE [text |-> FirstText(resp.candidates), err |-> "nil"]

\* openai_client.go:71-93, gemini_client.go:112-134, anthropic_client.go:98-120,
\* gemini_client.go:206-228 (Groq), openrouter_client.go:77-98
GenerateResult(provider, resp) ==
    IF resp.do # "ok" THEN [text |-> "", err |-> "call API"]
    ELSE IF resp.read # "ok" THEN [text |-> "", err |-> "read response"]
    ELSE IF resp.status # StatusOK THEN [text |-> "", err |-> "API error"]
    ELSE IF resp.json # "ok" THEN [text |-> "", err |-> "unmarshal response"]
    ELSE IF NoContent(provider, resp.candidates) THEN [text |-> "", err |-> "no choices"]
    ELSE [text |-> FirstText(resp.candidates), err |-> "nil"]

\* What a call of Generate left behind: the client it ran on, the requests it
\* handed to http.Client.Do, the response it met, and the text and error returned.
NoLLMRet ==
    [done |-> FALSE, client |-> NoClient, calls |-> 0,
     resp |-> NoLLMResponse, text |-> "", err |-> "nil"]

InitLLM ==
    /\ llmClient = NoClient
    /\ llmCreate = [called |-> FALSE, provider |-> "", model |-> "",
                    client |-> NoClient, err |-> "nil"]
    /\ llmPc = "idle"
    /\ httpCalls = 0
    /\ llmRet = NoLLMRet

(***************************************************************************)
(* internal/llm: the request bodies GeminiClient.Generate and              *)
(* AnthropicClient.Generate build from the messages they are given.        *)
(***************************************************************************)
\* factory.go:30-33
Message(role, content) == [Role |-> role, Content |-> content]

\* The messages a caller passes: the three roles factory.go:31 names.
WireMessages == {Message(role, content) : role \in {"system", "user", "assistant"},
                                          content \in {"c1", "c2"}}
WireSequences == UNION {[1..n -> WireMessages] : n \in 0..MaxMessages}

\* gemini_client.go:38-45
GeminiContent(role, t) == [Role |-> role, Parts |-> <<[Text |-> t]>>]

\* gemini_client.go:69  var systemInstruction *geminiContent: nil
NoSystemInstruction == [set |-> FALSE, content |-> GeminiContent("", "")]

\* gemini_client.go:77-80
GeminiRoleKept(role) == role

GeminiRole(role) == IF role = "assistant" THEN "model" ELSE role

\* gemini_client.go:68-86  the loop over messages, after its first n turns
RECURSIVE GeminiLoop(_, _)
GeminiLoop(msgs, n) ==
    IF n = 0 THEN [contents |-> <<>>, systemInstruction |-> NoSystemInstruction]
    ELSE LET before == GeminiLoop(msgs, n - 1)
             msg == msgs[n]
         IN  IF msg.Role = "system"
             THEN [before EXCEPT !.systemInstruction =
                      [set |-> TRUE, content |-> GeminiContent("", msg.Content)]]
             ELSE [before EXCEPT !.contents =
                      Append(before.contents,
                             GeminiContent(GeminiRole(msg.Role), msg.Content))]

\* gemini_client.go:88-95  reqBody
GeminiRequest(msgs) ==
    [Contents |-> GeminiLoop(msgs, Len(msgs)).contents,
     SystemInstruction |-> GeminiLoop(msgs, Len(msgs)).systemInstruction,
     GenerationConfig |-> [Temperature |-> "0.7", MaxOutputTokens |-> 1024]]

\* anthropic_client.go:38-41
AnthropicMessage(role, content) == [Role |-> role, Content |-> content]

\* anthropic_client.go:57-69  the loop over messages, after its first n turns
RECURSIVE AnthropicLoop(_, _)
AnthropicLoop(msgs, n) ==
    IF n = 0 THEN [systemPrompt |-> "", anthropicMsgs |-> <<>>]
    ELSE LET before == AnthropicLoop(msgs, n - 1)
             msg == msgs[n]
         IN  IF msg.Role = "system"
             THEN [before EXCEPT !.systemPrompt = msg.Content]
             ELSE [before EXCEPT !.anthropicMsgs =
                      Append(before.anthropicMsgs,
                             AnthropicMessage(msg.Role, msg.Content))]

\* anthropic_client.go:71-81  reqBody
AnthropicRequest(model, msgs) ==
    [Model |-> model, MaxTokens |-> 1024,
     System |-> AnthropicLoop(msgs, Len(msgs)).systemPrompt,
     Messages |-> AnthropicLoop(msgs, Len(msgs)).anthropicMsgs]

NoWire == [provider |-> "", messages |-> <<>>, body |-> [Model |-> ""]]

InitWire == wire = NoWire

(***************************************************************************)
(* part_000 (embedder.go): the Embedder.  A text is the sequence of its    *)
(* characters, all of one byte.                                            *)
(***************************************************************************)
\* part_000:88-89  int(char)
Code(ch) ==
    CASE ch = "a" -> 97
      [] ch = "b" -> 98
      [] ch = "d" -> 100
      [] ch = " " -> 32

\* strings.TrimSpace: the white space among the characters used
IsSpace(ch) == ch = " "

RECURSIVE TextsOfLen(_, _)
TextsOfLen(alphabet, n) ==
    IF n = 0 THEN {<<>>}
    ELSE {Append(t, ch) : t \in TextsOfLen(alphabet, n - 1), ch \in alphabet}

TextsUpTo(alphabet, n) == UNION {TextsOfLen(alphabet, k) : k \in 0..n}

\* part_000:20-22  an Embedder is its Config (README: ChunkSize 500, ChunkOverlap 50)
Embedder(chunkSize, overlap) == [config |-> [ChunkSize |-> chunkSize, ChunkOverlap |-> overlap]]

\* part_000:87-89  the values hash takes as the loop runs over characters
\* lo..hi of text, entered with the value h: the run over lo..hi is the run
\* over lo..mid followed by the run over mid+1..hi
RECURSIVE Hashes(_, _, _, _)
Hashes(h, text, lo, hi) ==
    IF lo > hi THEN <<>>
    ELSE IF lo = hi THEN <<(h * 31 + Code(text[lo])) % HashMod>>
    ELSE LET mid == (lo + hi) \div 2
             left == Hashes(h, text, lo, mid)
         IN  left \o Hashes(left[Len(left)], text, mid + 1, hi)

\* part_000:86-89  hash starts at 0: its values after each of the first n characters
HashUpTo(text, n) == Hashes(0, text, 1, n)

\* part_000:96-99  norm += v * v over coordinates lo..hi, in hundredths squared
RECURSIVE SumSqRange(_, _, _)
SumSqRange(ks, lo, hi) ==
    IF lo > hi THEN 0
    ELSE IF lo = hi THEN ks[lo] * ks[lo]
    ELSE SumSqRange(ks, lo, (lo + hi) \div 2) + SumSqRange(ks, (lo + hi) \div 2 + 1, hi)

SumSq(ks, n) == SumSqRange(ks, 1, n)

\* part_000:81-106  GetEmbedding.  Coordinate i is float32(hash%100)/100.0, in
\* hundredths ks[i]; their squares sum to SumSq/10000, and every coordinate is
\* multiplied by 1.0/(norm + 0.0001) = 10000/(SumSq + 1).  The result is kept
\* exact: coordinate i is head[i] * num / den, and the coordinates after head
\* are 0.
GetEmbeddingSizedByConfig(e, text) ==
    LET n == Min(Len(text), e.config.ChunkSize)
        hs == HashUpTo(text, n)
        ks == [i \in 1..n |-> hs[i] % 100]
    IN  [embedding |-> [dim |-> e.config.ChunkSize, head |-> ks,
                        num |-> 100, den |-> SumSq(ks, n) + 1],
         err |-> "nil"]

GetEmbedding(e, text) ==
    LET n == Min(Len(text), EmbeddingLen)
        hs == HashUpTo(text, n)
        ks == [i \in 1..n |-> hs[i] % 100]
    IN  [embedding |-> [dim |-> EmbeddingLen, head |-> ks,
                        num |-> 100, den |-> SumSq(ks, n) + 1],
         err |-> "nil"]

\* The Embedder instances and the texts tried under SpecEmbed.
Embedders == {Embedder(500, 50), Embedder(3, 1)}
EmbedTexts == TextsUpTo({"a", "d"}, MaxEmbedLen)

InitEmbed == embedCalls = <<>>

\* strings.TrimSpace
TrimLeft(t) ==
    IF \A k \in 1..Len(t) : IsSpace(t[k]) THEN <<>>
    ELSE SubSeq(t, CHOOSE k \in 1..Len(t) :
                       /\ ~IsSpace(t[k])
                       /\ \A j \in 1..(k - 1) : IsSpace(t[j]),
                Len(t))

TrimRight(t) ==
    IF \A k \in 1..Len(t) : IsSpace(t[k]) THEN <<>>
    ELSE SubSeq(t, 1, CHOOSE k \in 1..Len(t) :
                          /\ ~IsSpace(t[k])
                          /\ \A j \in (k + 1)..Len(t) : IsSpace(t[j]))

TrimSpace(t) == TrimRight(TrimLeft(t))

\* part_000:50  i += (chunkSize - overlap)
ChunkStepIgnoresOverlap(e) == e.config.ChunkSize

ChunkStep(e) == e.config.ChunkSize - e.config.ChunkOverlap

\* part_000:51-54  end := i + chunkSize, cut to len(text)
WindowEnd(e, text, i) == Min(i + e.config.ChunkSize, Len(text))

\* part_000:56  chunk := text[i:end]
Window(text, i, end) == SubSeq(text, i + 1, end)

\* part_000:66  len(chunks), the ordinal the next chunk is given
ChunkOrdinalFromOne(cs) == Len(cs) + 1

ChunkOrdinal(cs) == Len(cs)

\* part_000:57  strings.TrimSpace(chunk) == ""
IsBlankNever(chunk) == FALSE

IsBlank(chunk) == TrimSpace(chunk) = <<>>

\* The configurations tried under SpecChunk: every 0 < ChunkOverlap < ChunkSize
\* up to MaxChunkSize; and the texts and the source label.
ChunkEmbedders ==
    UNION {{Embedder(cs, ov) : ov \in 1..(cs - 1)} : cs \in 2..MaxChunkSize}
ChunkTexts == TextsUpTo({"a", "b", " "}, MaxTextLen)

InitChunk ==
    /\ chunkPc = "idle"
    /\ chunkCall = [e |-> Embedder(0, 0), text |-> <<>>, source |-> ""]
    /\ chunkText = <<>>
    /\ chunkI = 0
    /\ chunks = <<>>
    /\ chunkStarts = <<>>

(***************************************************************************)
(* main.go: the start of the program.  When the documents table is empty   *)
(* the data files are chunked and every chunk is embedded and stored.      *)
(***************************************************************************)
\* README.md:138-139  the defaults of Config.ChunkSize and Config.ChunkOverlap
ChunkSize == 500
ChunkOverlap == 50

\* main.go:28  NewEmbedder(config)
MainEmbedder == Embedder(ChunkSize, ChunkOverlap)

\* main.go:44
DataFiles == <<"data.txt", "knowledge.txt", "info.txt">>

Repeat(ch, n) == [k \in 1..n |-> ch]

\* main.go:57-77  sampleData: 810 bytes, the first and the last of which are
\* no white space, as are bytes 450, 451 and 500; its bytes are written d
SampleDataLen == 810
SampleData == Repeat("d", SampleDataLen)

\* The documents found in the data files: six of 1200 characters (plain, with
\* a space every hundredth character, with white space in front, with white
\* space behind, with a window of white space in the middle, with both),
\* a short one and a blank one.
DocLen == 1200
Documents ==
    { Repeat("a", DocLen),
      [k \in 1..DocLen |-> IF k % 100 = 0 THEN " " ELSE "a"],
      Repeat(" ", 100) \o Repeat("a", DocLen - 100),
      Repeat("a", DocLen - 300) \o Repeat(" ", 300),
      Repeat("a", 450) \o Repeat(" ", 500) \o Repeat("b", DocLen - 950),
      <<"a", "b">>,
      <<" ">> }

\* The working directory the program is started in: no data file, data.txt
\* alone, or data.txt and knowledge.txt.
Disks ==
    { [f \in {} |-> <<>>] }
    \cup { [f \in {"data.txt"} |-> d] : d \in Documents }
    \cup { [f \in {"data.txt", "knowledge.txt"} |->
              IF f = "data.txt" THEN <<"a", "b">> ELSE Repeat("a", DocLen)] }

\* main.go:45-51  the data files os.Stat finds, in the order of dataFiles
ExistingFiles(d) == SelectSeq(DataFiles, LAMBDA f : f \in DOMAIN d)

\* main.go:110  the number printed as stored: len(chunks)
StoredReport(cs) == Len(cs)

NoRun ==
    [count |-> 0, existingFiles |-> <<>>, file |-> 0, chunks |-> <<>>, starts |-> <<>>,
     i |-> 0, logged |-> <<>>, created |-> -1, stored |-> -1, contains |-> -1,
     fatal |-> "nil"]

InitMain ==
    /\ mainPc = "start"
    /\ mainRun = NoRun
    /\ disk = [f \in {} |-> <<>>]
    /\ runs = 1

(***************************************************************************)
(* chat.go:402-480  the retrieval Query: embed the question, search the    *)
(* store, build the prompt, call the Groq API.  A string built with        *)
(* fmt.Sprintf is kept as its pieces; an error is its message and the      *)
(* message of the error it wraps with %w ("none" if it wraps none).        *)
(***************************************************************************)
Error(msg, cause) == [msg |-> msg, cause |-> cause]

NilError == Error("nil", "none")

\* chat.go:421  "%.2f" of result.Similarity
Sprintf2f(similarity) == [format |-> "%.2f", value |-> similarity]

\* chat.go:421-422  "\n[Document %d - Similarity: %.2f]\n%s\n"
DocumentEntry(i, result) ==
    [Document |-> i, Similarity |-> Sprintf2f(result.Similarity), Content |-> result.Content]

\* chat.go:417-424  context_text: empty, or the header and one entry per result
ContextTextFirstOnly(results) ==
    IF Len(results) > 0
    THEN [header |-> "Context:\n", documents |-> <<DocumentEntry(1, results[1])>>]
    ELSE [header |-> "", documents |-> <<>>]

ContextText(results) ==
    IF Len(results) > 0
    THEN [header |-> "Context:\n",
          documents |-> [i \in 1..Len(results) |-> DocumentEntry(i, results[i])]]
    ELSE [header |-> "", documents |-> <<>>]

\* chat.go:427-428  "%s\n\nQuestion: %s\n\nAnswer based on the context above:"
Prompt(results, q) ==
    [context |-> ContextText(results), before |-> "\n\nQuestion: ", question |-> q,
     after |-> "\n\nAnswer based on the context above:"]

\* A prompt that is nothing but the question.
BarePrompt(q) ==
    [context |-> [header |-> "", documents |-> <<>>], before |-> "", question |-> q,
     after |-> ""]

\* chat.go:433-436  the messages of the request
RAGMessages(systemPrompt, prompt) ==
    <<GroqMessage("system", systemPrompt), GroqMessage("user", prompt)>>

\* chat.go:405-408  the embedding step: its error, wrapped, ends the call
AfterEmbedding(r) ==
    IF r.err # "nil" THEN Error("failed to get query embedding", r.err) ELSE NilError

\* chat.go:411-414  the search step: its error, wrapped, ends the call
AfterSearchIgnoresError(out) == NilError

AfterSearch(out) ==
    IF out.err # "nil" THEN Error("failed to search documents", out.err) ELSE NilError

\* chat.go:455-479  the completion step: what Query returns of the exchange
RAGQueryResult(resp) ==
    IF resp.do # "ok" THEN [answer |-> "", err |-> Error("failed to call Groq API", "transport")]
    ELSE IF resp.read # "ok"
    THEN [answer |-> "", err |-> Error("failed to read response", "read")]
    ELSE IF resp.status # StatusOK THEN [answer |-> "", err |-> Error("Groq API error", "none")]
    ELSE IF resp.json # "ok"
    THEN [answer |-> "", err |-> Error("failed to unmarshal response", "json")]
    ELSE IF Len(resp.choices) = 0
    THEN [answer |-> "", err |-> Error("no response from model", "none")]
    ELSE [answer |-> resp.choices[1], err |-> NilError]

\* The questions asked under SpecRAG.
RAGQuestions == {<<"a">>, <<"a", "b">>}

NoRAG ==
    [question |-> <<>>, db |-> "ok", embeds |-> 0, searches |-> 0, generates |-> 0,
     embedErr |-> "nil", searchErr |-> "nil", results |-> <<>>, prompt |-> BarePrompt(<<>>),
     messages |-> <<>>]

NoRAGRet == [done |-> FALSE, answer |-> "", err |-> NilError, resp |-> NoResponse]

InitRAG ==
    /\ ragPc = "idle"
    /\ rag = NoRAG
    /\ ragRet = NoRAGRet

(***************************************************************************)
(* chat.go:228-345 and part_001:163-249  RunInteractive.  A line is the    *)
(* sequence of its characters.                                             *)
(***************************************************************************)
\* strings.ToLower
ToLowerChar(ch) ==
    CASE ch = "E" -> "e" [] ch = "H" -> "h" [] ch = "I" -> "i"
      [] ch = "Q" -> "q" [] ch = "T" -> "t" [] ch = "U" -> "u"
      [] OTHER -> ch

ToLower(t) == [k \in 1..Len(t) |-> ToLowerChar(t[k])]

\* The lines typed: empty and blank ones, the commands in several cases and
\* with white space around them, and two questions.
Lines ==
    { <<>>, <<" ", " ">>,
      <<"e", "x", "i", "t">>, <<" ", "Q", "U", "I", "T">>,
      <<"H", "i", "s", "t", "o", "r", "y">>, <<"c", "l", "e", "a", "r", " ">>,
      <<"a">>, <<" ", "E", "x", "i", "t", " ", "b", " ">> }

\* chat.go:268-304  what the loop does with a line: nothing, leave, a command, or a question
InputKindCaseSensitive(line) ==
    LET t == TrimSpace(line)
    IN  IF t = <<>> THEN "empty"
        ELSE IF t = <<"e", "x", "i", "t">> \/ t = <<"q", "u", "i", "t">> THEN "exit"
        ELSE IF t = <<"h", "i", "s", "t", "o", "r", "y">> THEN "history"
        ELSE IF t = <<"c", "l", "e", "a", "r">> THEN "clear"
        ELSE "question"

InputKind(line) ==
    LET t == TrimSpace(line)
    IN  IF t = <<>> THEN "empty"
        ELSE IF ToLower(t) = <<"e", "x", "i", "t">> \/ ToLower(t) = <<"q", "u", "i", "t">>
        THEN "exit"
        ELSE IF ToLower(t) = <<"h", "i", "s", "t", "o", "r", "y">> THEN "history"
        ELSE IF ToLower(t) = <<"c", "l", "e", "a", "r">> THEN "clear"
        ELSE "question"

\* chat.go:321-337  the flag once Query has returned, with or without an error
StreamingAfterQueryKeptOnError(err) == err # "nil"

StreamingAfterQuery(err) == FALSE

\* chat.go:258-264  go func() { ... }(): a reader goroutine, about to call scanner.Scan
Reader == [state |-> "scan", value |-> <<>>]

\* The two RunInteractive of the sources.
Versions == {"chat.go", "part_001"}

InitLoop ==
    /\ loopPc = "none"
    /\ loopVersion = "chat.go"
    /\ streaming = FALSE
    /\ stdin = [state |-> "open", read |-> 0]
    /\ readers = <<>>
    /\ input = <<>>
    /\ loopRet = "none"
    /\ flagUse = {}

Init ==
    /\ InitLoop
    /\ InitChat /\ InitStore /\ InitConc /\ InitLLM /\ InitEmbed /\ InitChunk /\ InitRAG
    /\ InitMain /\ InitWire

QueryDispatch ==
    /\ pc = "idle"
    /\ Len(conversationHistory) + 2 <= MaxTurns
    /\ \E q \in Questions :
        LET hist == AddToHistory(conversationHistory, "user", q, clock + 1)
        IN  /\ Varied(hist) <= MaxVaried
            /\ question' = q
            /\ calls' = Append(calls, QueryCall(q))
            /\ conversationHistory' = hist
            /\ messages' = BuildMessages(hist, config.SystemPrompt)
    /\ clock' = clock + 1
    /\ pc' = "inflight"
    /\ response' = NoResponse
    /\ ret' = NoReturn
    /\ shown' = 0
    /\ UNCHANGED <<config, storeVars, concVars, libVars>>

QueryReturn ==
    /\ pc = "inflight"
    /\ \E resp \in Responses :
        LET r == QueryResult(resp)
        IN  /\ (r.err # "nil") => Failures(conversationHistory) <= MaxFailures
            /\ response' = resp
            /\ ret' = r
            /\ calls' = QueryReturned(calls, r.err)
            /\ IF r.err = "nil"
               THEN /\ conversationHistory' =
                          AddToHistory(conversationHistory, "assistant", r.answer, clock + 1)
                    /\ clock' = clock + 1
               ELSE UNCHANGED <<conversationHistory, clock>>
    /\ pc' = "idle"
    /\ UNCHANGED <<config, question, messages, shown, storeVars, concVars, libVars>>

\* chat.go:281-304  the history and clear commands print len(conversationHistory)
Command ==
    /\ pc = "idle"
    /\ shown' = Len(conversationHistory)
    /\ UNCHANGED <<conversationHistory, clock, config, seqVars, storeVars, concVars, libVars>>

Next == QueryDispatch \/ QueryReturn \/ Command

Spec == Init /\ [][Next]_vars

(***************************************************************************)
(* SpecStore: the VectorStore operations, each one statement sent to the   *)
(* database.  db is "down" when the statement cannot be executed at all    *)
(* (connection lost, context cancelled).                                   *)
(***************************************************************************)
DB == {"ok", "down"}

\* store.go:74-94
StoreChunk ==
    /\ uuids < MaxStores
    /\ \E chunk \in Chunks, embedding \in Embeddings \cup BadEmbeddings, db \in DB :
        LET id == NewUUID(uuids)
            row == [id |-> id, content |-> chunk.Content, source |-> chunk.Source,
                    embedding |-> embedding]
            ok == db = "ok" /\ ColumnAccepts(embedding)
        IN  /\ uuids' = id
            /\ documents' = IF ok THEN Upsert(documents, row) ELSE documents
            /\ storeRet' = [NoStoreRet EXCEPT !.op = "store", !.db = db, !.chunk = chunk,
                               !.embedding = embedding,
                               !.err = IF ok THEN "nil" ELSE "failed to store chunk"]
    /\ UNCHANGED <<chatVars, concVars, libVars>>

\* store.go:105-132
Search ==
    /\ \E q \in QueryEmbeddings \cup BadEmbeddings, topK \in 1..TopK, db \in DB :
        \E out \in SearchOutcomes(documents, q, topK, db) :
            storeRet' = [NoStoreRet EXCEPT !.op = "search", !.db = db, !.embedding = q,
                            !.topK = topK, !.err = out.err, !.results = out.results]
    /\ UNCHANGED <<documents, uuids, chatVars, concVars, libVars>>

\* store.go:135-138
Clear ==
    /\ \E db \in DB :
        /\ documents' = IF db = "ok" THEN DeleteAll(documents) ELSE documents
        /\ storeRet' = [NoStoreRet EXCEPT !.op = "clear", !.db = db,
                           !.err = IF db = "ok" THEN "nil" ELSE "db"]
    /\ UNCHANGED <<uuids, chatVars, concVars, libVars>>

\* store.go:141-145
Count ==
    /\ \E db \in DB :
        storeRet' = [NoStoreRet EXCEPT !.op = "count", !.db = db,
                        !.count = IF db = "ok" THEN CountRows(documents) ELSE 0,
                        !.err = IF db = "ok" THEN "nil" ELSE "db"]
    /\ UNCHANGED <<documents, uuids, chatVars, concVars, libVars>>

NextStore == StoreChunk \/ Search \/ Clear \/ Count

SpecStore == Init /\ [][NextStore]_vars

\* chat.go:74, 64  Query calls AddToHistory("user", question), which reads the slice
LoadForUser(g) ==
    /\ callers[g].pc = "idle"
    /\ queries < MaxQueries
    /\ \E q \in ConcQuestions :
        callers' = [callers EXCEPT ![g] =
            [IdleCaller EXCEPT !.pc = "storeUser", !.question = q,
                               !.loaded = conversationHistory]]
    /\ queries' = queries + 1
    /\ UNCHANGED <<sessionVars, seqVars, storeVars, switches, switchRet, libVars>>

\* chat.go:64-68  ... and writes back what it read with the user message added
StoreUser(g) ==
    /\ callers[g].pc = "storeUser"
    /\ conversationHistory' =
          AddToHistory(callers[g].loaded, "user", callers[g].question, clock + 1)
    /\ clock' = clock + 1
    /\ callers' = [callers EXCEPT ![g].pc = "build", ![g].loaded = <<>>]
    /\ UNCHANGED <<config, shown, seqVars, storeVars, queries, switches, switchRet, libVars>>

\* chat.go:77-116  the request is built from the history and the configuration
\* as they are now, and sent
Dispatch(g) ==
    /\ callers[g].pc = "build"
    /\ callers' = [callers EXCEPT ![g].pc = "inflight",
                                  ![g].model = config.ChatModel,
                                  ![g].messages =
                                      BuildMessages(conversationHistory, config.SystemPrompt)]
    /\ UNCHANGED <<sessionVars, seqVars, storeVars, queries, switches, switchRet, libVars>>

\* chat.go:116-140  the exchange ends: an error is returned at once
Receive(g) ==
    /\ callers[g].pc = "inflight"
    /\ \E resp \in ConcResponses :
        LET r == QueryResult(resp)
        IN  callers' = [callers EXCEPT ![g].ret = r,
                                       ![g].pc = IF r.err = "nil" THEN "loadAsst" ELSE "idle"]
    /\ UNCHANGED <<sessionVars, seqVars, storeVars, queries, switches, switchRet, libVars>>

\* chat.go:143, 64  AddToHistory("assistant", answer) reads the slice
LoadForAssistant(g) ==
    /\ callers[g].pc = "loadAsst"
    /\ callers' = [callers EXCEPT ![g].pc = "storeAsst", ![g].loaded = conversationHistory]
    /\ UNCHANGED <<sessionVars, seqVars, storeVars, queries, switches, switchRet, libVars>>

\* chat.go:64-68, 145  ... writes it back with the assistant message added; Query returns
StoreAssistant(g) ==
    /\ callers[g].pc = "storeAsst"
    /\ conversationHistory' =
          AddToHistory(callers[g].loaded, "assistant", callers[g].ret.answer, clock + 1)
    /\ clock' = clock + 1
    /\ callers' = [callers EXCEPT ![g].pc = "idle", ![g].loaded = <<>>]
    /\ UNCHANGED <<config, shown, seqVars, storeVars, queries, switches, switchRet, libVars>>

\* chat.go:283-284  the history command reads the slice, whatever the callers do
ReadHistory ==
    /\ shown' = Len(conversationHistory)
    /\ UNCHANGED <<conversationHistory, clock, config, seqVars, storeVars, concVars, libVars>>

\* switchBackend(provider, model, credential): not among the source files; after
\* section 4.5 of the specification it builds the client with NewClient and, if
\* that succeeds, replaces the active backend in one step.  A call in flight
\* when the backend is replaced is marked switched.
SwitchBackend ==
    /\ switches < MaxSwitches
    /\ \E provider \in SwitchProviders :
        LET r == NewClient(provider, "key", "model-2")
        IN  /\ switchRet' = [provider |-> provider, err |-> r.err]
            /\ IF r.err = "nil"
               THEN /\ config' = [config EXCEPT !.Provider = r.client.Provider,
                                                !.ChatModel = r.client.Model]
                    /\ callers' = [g \in Callers |->
                                      IF callers[g].pc = "inflight"
                                      THEN [callers[g] EXCEPT !.switched = TRUE]
                                      ELSE callers[g]]
               ELSE UNCHANGED <<config, callers>>
    /\ switches' = switches + 1
    /\ UNCHANGED <<conversationHistory, clock, shown, seqVars, storeVars, queries, libVars>>

NextConc ==
    \/ \E g \in Callers :
          \/ LoadForUser(g)
          \/ StoreUser(g)
          \/ Dispatch(g)
          \/ Receive(g)
          \/ LoadForAssistant(g)
          \/ StoreAssistant(g)
    \/ ReadHistory
    \/ SwitchBackend

SpecConc == Init /\ [][NextConc]_vars

(***************************************************************************)
(* SpecLLM: a caller obtains clients from NewClient and calls Generate.    *)
(***************************************************************************)
\* factory.go:7-22  client, err := llm.NewClient(provider, apiKey, model)
CreateClient ==
    /\ llmPc = "idle"
    /\ \E provider \in ProviderNames, model \in ModelNames :
        LET r == NewClient(provider, "key", model)
        IN  /\ llmCreate' = [called |-> TRUE, provider |-> provider, model |-> model,
                             client |-> r.client, err |-> r.err]
            /\ llmClient' = IF r.err = "nil" THEN r.client ELSE llmClient
    /\ UNCHANGED <<llmPc, httpCalls, llmRet, baseVars, embedVars, chunkVars, ragVars, mainVars, restVars>>

\* openai_client.go:49-71 (and the same lines of the other clients)  Generate
\* builds the request and hands it to http.Client.Do; a request that cannot
\* be built is returned as an error at once
GenerateSend ==
    /\ llmPc = "idle"
    /\ llmClient # NoClient
    /\ httpCalls < MaxGenerates
    /\ IF RequestBuilds(llmClient)
       THEN /\ httpCalls' = httpCalls + 1
            /\ llmPc' = "sent"
            /\ llmRet' = [NoLLMRet EXCEPT !.client = llmClient, !.calls = 1]
       ELSE /\ llmRet' = [NoLLMRet EXCEPT !.done = TRUE, !.client = llmClient,
                                          !.err = "new request"]
            /\ UNCHANGED <<httpCalls, llmPc>>
    /\ UNCHANGED <<llmClient, llmCreate, baseVars, embedVars, chunkVars, ragVars, mainVars, restVars>>

\* openai_client.go:71-93 (and the same lines of the other clients)  the
\* exchange ends and Generate returns
GenerateReturn ==
    /\ llmPc = "sent"
    /\ \E resp \in LLMResponses :
        LET r == GenerateResult(llmRet.client.Provider, resp)
        IN  llmRet' = [llmRet EXCEPT !.done = TRUE, !.resp = resp,
                                     !.text = r.text, !.err = r.err]
    /\ llmPc' = "idle"
    /\ UNCHANGED <<llmClient, llmCreate, httpCalls, baseVars, embedVars, chunkVars, ragVars, mainVars, restVars>>

NextLLM ==
    \/ CreateClient
    \/ GenerateSend
    \/ GenerateReturn

SpecLLM == Init /\ [][NextLLM]_vars

(***************************************************************************)
(* SpecEmbed: calls of GetEmbedding on several Embedder instances.         *)
(***************************************************************************)
\* part_000:81-106
GetEmbeddingCall ==
    /\ Len(embedCalls) < MaxEmbeds
    /\ \E e \in Embedders, text \in EmbedTexts :
        LET r == GetEmbedding(e, text)
        IN  embedCalls' = Append(embedCalls,
                [e |-> e, text |-> text, embedding |-> r.embedding, err |-> r.err])
    /\ UNCHANGED <<baseVars, llmVars, chunkVars, ragVars, mainVars, restVars>>

NextEmbed == GetEmbeddingCall

SpecEmbed == Init /\ [][NextEmbed]_vars

(***************************************************************************)
(* SpecChunk: one call of ChunkText, one step per iteration of its loop.   *)
(* SpecChunkFair adds that a loop that can iterate does.                   *)
(***************************************************************************)
\* part_000:41-50  the call: chunks is empty, text is trimmed, i is 0 and the
\* loop condition i < len(text) is tested
ChunkTextCall ==
    /\ chunkPc = "idle"
    /\ \E e \in ChunkEmbedders, text \in ChunkTexts :
        /\ chunkCall' = [e |-> e, text |-> text, source |-> "data.txt"]
        /\ chunkText' = TrimSpace(text)
        /\ chunkPc' = IF 0 < Len(TrimSpace(text)) THEN "loop" ELSE "done"
    /\ chunkI' = 0
    /\ chunks' = <<>>
    /\ chunkStarts' = <<>>
    /\ UNCHANGED <<baseVars, llmVars, embedVars, ragVars, mainVars, restVars>>

\* part_000:50-73  one iteration: the window, the skip of a blank window, the
\* append, the break at the end of the text, then i += chunkSize - overlap and
\* the loop condition
ChunkIterate ==
    /\ chunkPc = "loop"
    /\ LET e == chunkCall.e
           end == WindowEnd(e, chunkText, chunkI)
           chunk == Window(chunkText, chunkI, end)
           skip == IsBlank(chunk)
       IN  /\ chunks' = IF skip THEN chunks
                        ELSE Append(chunks,
                                 TextChunk(TrimSpace(chunk), chunkCall.source,
                                           Metadata(chunkCall.source, ChunkOrdinal(chunks))))
           /\ chunkStarts' = IF skip THEN chunkStarts ELSE Append(chunkStarts, chunkI)
           /\ IF ~skip /\ end >= Len(chunkText)
              THEN /\ chunkPc' = "done"
                   /\ chunkI' = chunkI
              ELSE /\ chunkI' = chunkI + ChunkStep(e)
                   /\ chunkPc' = IF chunkI + ChunkStep(e) < Len(chunkText)
                                 THEN "loop" ELSE "done"
    /\ UNCHANGED <<chunkCall, chunkText, baseVars, llmVars, embedVars, ragVars, mainVars, restVars>>

NextChunk == ChunkTextCall \/ ChunkIterate

SpecChunk == Init /\ [][NextChunk]_vars

SpecChunkFair == SpecChunk /\ WF_vars(ChunkIterate)

(***************************************************************************)
(* SpecRAG: chunks are stored and the retrieval Query is called.           *)
(***************************************************************************)
\* chat.go:403-455  Query up to client.Do: the embedding, the search (which
\* the database may fail), the prompt and the request; an error of the
\* embedding or of the search is returned at once
RAGQuery ==
    /\ ragPc = "idle"
    /\ \E q \in RAGQuestions, db \in DB :
        LET emb == GetEmbedding(Embedder(500, 50), q)
            e1 == AfterEmbedding(emb)
        IN  IF e1 # NilError
            THEN /\ rag' = [NoRAG EXCEPT !.question = q, !.db = db, !.embeds = 1,
                                         !.embedErr = emb.err]
                 /\ ragRet' = [NoRAGRet EXCEPT !.done = TRUE, !.err = e1]
                 /\ ragPc' = "idle"
            ELSE \E out \in SearchOutcomes(documents, emb.embedding, TopK, db) :
                    LET e2 == AfterSearch(out)
                        prompt == Prompt(out.results, q)
                    IN  IF e2 # NilError
                        THEN /\ rag' = [NoRAG EXCEPT !.question = q, !.db = db, !.embeds = 1,
                                                     !.searches = 1, !.searchErr = out.err]
                             /\ ragRet' = [NoRAGRet EXCEPT !.done = TRUE, !.err = e2]
                             /\ ragPc' = "idle"
                        ELSE /\ rag' = [NoRAG EXCEPT !.question = q, !.db = db, !.embeds = 1,
                                                     !.searches = 1, !.generates = 1,
                                                     !.searchErr = out.err,
                                                     !.results = out.results,
                                                     !.prompt = prompt,
                                                     !.messages =
                                                         RAGMessages(config.SystemPrompt, prompt)]
                             /\ ragRet' = NoRAGRet
                             /\ ragPc' = "inflight"
    /\ UNCHANGED <<baseVars, llmVars, embedVars, chunkVars, mainVars, restVars>>

\* chat.go:455-479  the exchange ends and Query returns
RAGReturn ==
    /\ ragPc = "inflight"
    /\ \E resp \in Responses :
        LET r == RAGQueryResult(resp)
        IN  ragRet' = [done |-> TRUE, answer |-> r.answer, err |-> r.err, resp |-> resp]
    /\ ragPc' = "idle"
    /\ UNCHANGED <<rag, baseVars, llmVars, embedVars, chunkVars, mainVars, restVars>>

NextRAG == StoreChunk \/ RAGQuery \/ RAGReturn

SpecRAG == Init /\ [][NextRAG]_vars

(***************************************************************************)
(* SpecWire: Generate is called once on a Gemini or an Anthropic client    *)
(* and builds its request body.                                            *)
(***************************************************************************)
\* gemini_client.go:67-95, anthropic_client.go:55-81
BuildRequest ==
    /\ wire = NoWire
    /\ \E provider \in {"gemini", "anthropic"}, msgs \in WireSequences :
        wire' = [provider |-> provider, messages |-> msgs,
                 body |-> IF provider = "gemini" THEN GeminiRequest(msgs)
                          ELSE AnthropicRequest("m1", msgs)]
    /\ UNCHANGED <<baseVars, llmVars, embedVars, chunkVars, ragVars, mainVars, loopVars>>

NextWire == BuildRequest

SpecWire == Init /\ [][NextWire]_vars

(***************************************************************************)
(* SpecIngest: the program is started, up to MaxRuns times, against one    *)
(* database and one working directory; between the starts the data files   *)
(* may be replaced.  A run ends at log.Fatalf or hands over to the chat.   *)
(***************************************************************************)
\* The data files are put in place before the program is started.
PlaceDataFiles ==
    /\ mainPc = "start"
    /\ \E d \in Disks : disk' = d
    /\ UNCHANGED <<mainPc, mainRun, runs, baseVars, llmVars, embedVars, chunkVars, ragVars, restVars>>

\* main.go:30-40, 111-113  the count of the table decides whether to load
MainCount ==
    /\ mainPc = "start"
    /\ \E db \in DB :
        IF db # "ok"
        THEN /\ mainPc' = "exit"
             /\ mainRun' = [mainRun EXCEPT !.fatal = "Failed to check document count"]
        ELSE /\ mainPc' = IF CountRows(documents) = 0 THEN "files" ELSE "chat"
             /\ mainRun' = [mainRun EXCEPT !.count = CountRows(documents),
                               !.contains = IF CountRows(documents) = 0 THEN -1
                                            ELSE CountRows(documents)]
    /\ UNCHANGED <<disk, runs, baseVars, llmVars, embedVars, chunkVars, ragVars, restVars>>

\* main.go:43-88  the data files that exist, or else a sample data.txt
MainFiles ==
    /\ mainPc = "files"
    /\ IF Len(ExistingFiles(disk)) = 0
       THEN \E write \in {"ok", "error"} :
               IF write = "ok"
               THEN /\ disk' = [f \in {"data.txt"} |-> SampleData]
                    /\ mainRun' = [mainRun EXCEPT !.existingFiles = <<"data.txt">>, !.file = 1]
                    /\ mainPc' = "process"
               ELSE /\ disk' = disk
                    /\ mainRun' = [mainRun EXCEPT !.fatal = "Failed to create sample data"]
                    /\ mainPc' = "exit"
       ELSE /\ disk' = disk
            /\ mainRun' = [mainRun EXCEPT !.existingFiles = ExistingFiles(disk), !.file = 1]
            /\ mainPc' = "process"
    /\ UNCHANGED <<runs, baseVars, llmVars, embedVars, chunkVars, ragVars, restVars>>

\* part_000:120-126, 41-50  ProcessFiles takes the next file: LoadTextFile,
\* then the call of ChunkText up to the first test of its loop
ProcessFile ==
    /\ mainPc = "process"
    /\ chunkPc = "idle"
    /\ LET f == mainRun.existingFiles[mainRun.file]
       IN  \E read \in {"ok", "error"} :
               IF read = "ok" /\ f \in DOMAIN disk
               THEN /\ chunkCall' = [e |-> MainEmbedder, text |-> disk[f], source |-> f]
                    /\ chunkText' = TrimSpace(disk[f])
                    /\ chunkPc' = IF 0 < Len(TrimSpace(disk[f])) THEN "loop" ELSE "done"
                    /\ chunkI' = 0
                    /\ chunks' = <<>>
                    /\ chunkStarts' = <<>>
                    /\ UNCHANGED <<mainPc, mainRun>>
               ELSE /\ mainPc' = "exit"
                    /\ mainRun' = [mainRun EXCEPT !.fatal = "Failed to process files"]
                    /\ UNCHANGED chunkVars
    /\ UNCHANGED <<disk, runs, baseVars, llmVars, embedVars, ragVars, restVars>>

\* part_000:126-130, main.go:88-93  ChunkText has returned: its chunks are
\* appended to allChunks; after the last file ProcessFiles returns them
ProcessFileDone ==
    /\ mainPc = "process"
    /\ chunkPc = "done"
    /\ LET all == mainRun.chunks \o chunks
           last == mainRun.file = Len(mainRun.existingFiles)
       IN  /\ mainRun' = [mainRun EXCEPT !.chunks = all,
                             !.starts = mainRun.starts \o chunkStarts,
                             !.file = mainRun.file + 1,
                             !.created = IF last THEN Len(all) ELSE -1]
           /\ mainPc' = IF last THEN "store" ELSE "process"
    /\ chunkPc' = "idle"
    /\ UNCHANGED <<chunkCall, chunkText, chunkI, chunks, chunkStarts>>
    /\ UNCHANGED <<disk, runs, baseVars, llmVars, embedVars, ragVars, restVars>>

\* main.go:97-108  one iteration of the loop over chunks: GetEmbedding, then
\* StoreChunk (store.go:74-94); a failure is logged (logged holds the i of
\* each log.Printf) and the loop goes on
MainStoreChunk ==
    /\ mainPc = "store"
    /\ mainRun.i < Len(mainRun.chunks)
    /\ LET chunk == mainRun.chunks[mainRun.i + 1]
           r == GetEmbedding(MainEmbedder, chunk.Content)
       IN  IF r.err # "nil"
           THEN /\ mainRun' = [mainRun EXCEPT !.i = mainRun.i + 1,
                                  !.logged = Append(mainRun.logged, mainRun.i)]
                /\ UNCHANGED storeVars
           ELSE \E db \in DB :
                   LET id == NewUUID(uuids)
                       row == [id |-> id, content |-> chunk.Content,
                               source |-> chunk.Source, embedding |-> r.embedding]
                       ok == db = "ok" /\ ColumnAccepts(r.embedding)
                   IN  /\ uuids' = id
                       /\ documents' = IF ok THEN Upsert(documents, row) ELSE documents
                       /\ storeRet' = [NoStoreRet EXCEPT !.op = "store", !.db = db,
                                          !.chunk = chunk, !.embedding = r.embedding,
                                          !.err = IF ok THEN "nil"
                                                  ELSE "failed to store chunk"]
                       /\ mainRun' = [mainRun EXCEPT !.i = mainRun.i + 1,
                                         !.logged = IF ok THEN mainRun.logged
                                                    ELSE Append(mainRun.logged, mainRun.i)]
    /\ UNCHANGED <<mainPc, disk, runs, chatVars, concVars, llmVars, embedVars, chunkVars, ragVars, restVars>>

\* main.go:108-116  the loop is over: "Stored %d chunks", then the chat
MainReport ==
    /\ mainPc = "store"
    /\ mainRun.i = Len(mainRun.chunks)
    /\ mainRun' = [mainRun EXCEPT !.stored = StoredReport(mainRun.chunks)]
    /\ mainPc' = "chat"
    /\ UNCHANGED <<disk, runs, baseVars, llmVars, embedVars, chunkVars, ragVars, restVars>>

\* The program has ended (log.Fatalf, or the chat was left) and is started again.
MainRestart ==
    /\ mainPc \in {"exit", "chat"}
    /\ runs < MaxRuns
    /\ runs' = runs + 1
    /\ mainPc' = "start"
    /\ mainRun' = NoRun
    /\ UNCHANGED <<disk, baseVars, llmVars, embedVars, chunkVars, ragVars, restVars>>

NextIngest ==
    \/ PlaceDataFiles \/ MainCount \/ MainFiles \/ ProcessFile \/ ChunkIterate
    \/ ProcessFileDone \/ MainStoreChunk \/ MainReport \/ MainRestart

SpecIngest == Init /\ [][NextIngest]_vars

(***************************************************************************)
(* SpecLoop: main calls RunInteractive (main.go:119), in either version,   *)
(* and lines are typed on standard input until it ends or fails.  The      *)
(* goroutine of RunInteractive and the reader goroutines it starts take    *)
(* their steps in any order.  SpecLoopFair adds that a goroutine that can  *)
(* take a step does, and that a request sent meets an outcome.             *)
(***************************************************************************)
notLoopVars ==
    <<config, pc, storeVars, concVars, llmVars, embedVars, chunkVars, ragVars, mainVars, wireVars>>

\* chat.go:228-248, part_001:163-179  the call, up to the loop
RunInteractiveCall ==
    /\ loopPc = "none"
    /\ \E v \in Versions : loopVersion' = v
    /\ loopPc' = "top"
    /\ streaming' = FALSE
    /\ UNCHANGED <<stdin, readers, input, loopRet, flagUse>>
    /\ UNCHANGED <<conversationHistory, clock, shown, question, messages, response, ret, calls>>
    /\ UNCHANGED notLoopVars

\* chat.go:250-264  the top of the loop: the flag is read for the prompt and
\* a reader goroutine is started
LoopTop ==
    /\ loopPc = "top"
    /\ loopVersion = "chat.go"
    /\ flagUse' = flagUse \cup {"main"}
    /\ readers' = Append(readers, Reader)
    /\ loopPc' = "recv"
    /\ UNCHANGED <<loopVersion, streaming, stdin, input, loopRet>>
    /\ UNCHANGED <<conversationHistory, clock, shown, question, messages, response, ret, calls>>
    /\ UNCHANGED notLoopVars

\* bufio.Scanner.Scan on standard input: a line (Scan is true), or the end of
\* the input or a read error (Scan is false, then and ever after)
ScanOutcomes ==
    IF stdin.state # "open" THEN {[ok |-> FALSE, line |-> <<>>, stdin |-> stdin]}
    ELSE {[ok |-> FALSE, line |-> <<>>, stdin |-> [stdin EXCEPT !.state = st]] :
              st \in {"eof", "error"}}
         \cup (IF stdin.read < MaxLines
                THEN {[ok |-> TRUE, line |-> l, stdin |-> [stdin EXCEPT !.read = stdin.read + 1]] :
                          l \in Lines}
                ELSE {})

\* chat.go:258-264  a reader goroutine: scanner.Scan returns, and the line,
\* or "" when Scan is false, is offered on inputChan
ReaderScan ==
    /\ \E k \in 1..Len(readers) :
        /\ readers[k].state = "scan"
        /\ \E out \in ScanOutcomes :
            /\ stdin' = out.stdin
            /\ readers' = [readers EXCEPT ![k] =
                              [state |-> "send",
                               value |-> IF out.ok THEN out.line ELSE <<>>]]
    /\ UNCHANGED <<loopPc, loopVersion, streaming, input, loopRet, flagUse>>
    /\ UNCHANGED <<conversationHistory, clock, shown, question, messages, response, ret, calls>>
    /\ UNCHANGED notLoopVars

\* chat.go:268-320, part_001:191-230 with Query up to client.Do (chat.go:74-116):
\* the loop body for the line taken.  An empty line goes round; exit and quit
\* leave the loop; history and clear print the length of the history; any
\* other line sets the flag (chat.go only) and is the question of Query,
\* kept in calls.
LoopBody(line) ==
    LET kind == InputKind(line)
        q == TrimSpace(line)
        hist == AddToHistory(conversationHistory, "user", q, clock + 1)
    IN  /\ input' = line
        /\ loopPc' = CASE kind = "exit" -> "after"
                       [] kind = "question" -> "query"
                       [] OTHER -> "top"
        /\ shown' = IF kind \in {"history", "clear"} THEN Len(conversationHistory) ELSE shown
        /\ IF kind = "question"
           THEN /\ streaming' = (loopVersion = "chat.go")
                /\ flagUse' = IF loopVersion = "chat.go" THEN flagUse \cup {"main"} ELSE flagUse
                /\ calls' = Append(calls, QueryCall(q))
                /\ conversationHistory' = hist
                /\ clock' = clock + 1
                /\ messages' = BuildMessages(hist, config.SystemPrompt)
                /\ response' = NoResponse
                /\ ret' = NoReturn
           ELSE UNCHANGED <<streaming, flagUse, calls, conversationHistory, clock,
                            messages, response, ret>>

\* chat.go:267  input := <-inputChan: the line a reader goroutine offers is
\* taken and that goroutine ends; then the loop body
LoopReceive ==
    /\ loopPc = "recv"
    /\ \E k \in 1..Len(readers) :
        /\ readers[k].state = "send"
        /\ readers' = [j \in 1..(Len(readers) - 1) |->
                          IF j < k THEN readers[j] ELSE readers[j + 1]]
        /\ LoopBody(readers[k].value)
    /\ UNCHANGED <<loopVersion, stdin, loopRet, question>>
    /\ UNCHANGED notLoopVars

\* part_001:181-230  the loop of part_001: scanner.Scan in the loop's own
\* goroutine; when it is false the loop is left, else the loop body
LoopScan ==
    /\ loopPc = "top"
    /\ loopVersion = "part_001"
    /\ \E out \in ScanOutcomes :
        /\ stdin' = out.stdin
        /\ IF out.ok
           THEN LoopBody(out.line)
           ELSE /\ loopPc' = "after"
                /\ UNCHANGED <<input, shown, streaming, flagUse, calls,
                               conversationHistory, clock, messages, response, ret>>
    /\ UNCHANGED <<loopVersion, readers, loopRet, question>>
    /\ UNCHANGED notLoopVars

\* chat.go:116-145, 320-337, part_001:230-241  the exchange ends, Query
\* returns, the error or the answer is printed and the flag is cleared
LoopQueryReturn ==
    /\ loopPc = "query"
    /\ \E resp \in Responses :
        LET r == QueryResult(resp)
        IN  /\ response' = resp
            /\ ret' = r
            /\ calls' = QueryReturned(calls, r.err)
            /\ IF r.err = "nil"
               THEN /\ conversationHistory' =
                          AddToHistory(conversationHistory, "assistant", r.answer, clock + 1)
                    /\ clock' = clock + 1
               ELSE UNCHANGED <<conversationHistory, clock>>
            /\ IF loopVersion = "chat.go"
               THEN /\ streaming' = StreamingAfterQuery(r.err)
                    /\ flagUse' = flagUse \cup {"main"}
               ELSE UNCHANGED <<streaming, flagUse>>
    /\ loopPc' = "top"
    /\ UNCHANGED <<loopVersion, stdin, readers, input, loopRet, shown, question, messages>>
    /\ UNCHANGED notLoopVars

\* chat.go:340-345, part_001:244-249  after the loop: scanner.Err
LoopLeave ==
    /\ loopPc = "after"
    /\ loopRet' = IF stdin.state = "error" THEN "error reading input" ELSE "nil"
    /\ loopPc' = "returned"
    /\ UNCHANGED <<loopVersion, streaming, stdin, readers, input, flagUse>>
    /\ UNCHANGED <<conversationHistory, clock, shown, question, messages, response, ret, calls>>
    /\ UNCHANGED notLoopVars

NextLoop ==
    \/ RunInteractiveCall \/ LoopTop \/ ReaderScan \/ LoopReceive \/ LoopScan
    \/ LoopQueryReturn \/ LoopLeave

SpecLoop == Init /\ [][NextLoop]_vars

SpecLoopFair ==
    /\ SpecLoop
    /\ WF_vars(RunInteractiveCall) /\ WF_vars(LoopTop) /\ WF_vars(ReaderScan)
    /\ WF_vars(LoopReceive) /\ WF_vars(LoopScan) /\ WF_vars(LoopQueryReturn)
    /\ WF_vars(LoopLeave)

(***************************************************************************)
(* Claims about the conversation memory, checked under Spec.               *)
(***************************************************************************)
\* C1: when Query has built its request (the user turn already appended to a
\* history of n turns), the messages sent are the system prompt followed by
\* exactly the last min(n, 20) turns, oldest first, ending with the question
\* just asked.
C1_OutboundWindow ==
    pc = "inflight" =>
        LET n == Len(conversationHistory)
            k == Min(n, 20)
        IN  /\ Len(messages) = k + 1
            /\ messages[1] = [Role |-> "system", Content |-> config.SystemPrompt]
            /\ \A i \in 1..k :
                  /\ messages[1 + i].Role = conversationHistory[n - k + i].Role
                  /\ messages[1 + i].Content = conversationHistory[n - k + i].Content
            /\ messages[k + 1] = [Role |-> "user", Content |-> question]

\* C1 witness: a request built on a history of 25 turns.
C1_Witness ==
    /\ pc = "inflight"
    /\ Len(conversationHistory) = 25
    /\ Len(messages) = 21

\* The outcomes C2 calls a failed generation call.
Failed(resp) ==
    \/ resp.do # "ok"
    \/ resp.read # "ok"
    \/ resp.status # 200
    \/ resp.json # "ok"
    \/ resp.choices = <<>>

\* C2: a query whose generation call fails returns the error, keeps the user
\* turn it appended at its start and appends no assistant turn: over the whole
\* query the history grows by exactly that one turn and the configuration
\* stays as it was.
C2_FailedQueryKeepsUserTurnOnly ==
    [][ /\ (pc = "idle" /\ pc' = "inflight") =>
              /\ Len(conversationHistory') = Len(conversationHistory) + 1
              /\ SubSeq(conversationHistory', 1, Len(conversationHistory)) = conversationHistory
              /\ conversationHistory'[Len(conversationHistory')].Role = "user"
              /\ conversationHistory'[Len(conversationHistory')].Content = question'
              /\ config' = config
        /\ (pc = "inflight" /\ pc' = "idle" /\ Failed(response')) =>
              /\ ret'.err # "nil"
              /\ ret'.answer = ""
              /\ conversationHistory' = conversationHistory
              /\ config' = config
      ]_vars

\* C2 witness: a query failed on an empty response after an earlier exchange,
\* leaving its user turn last in the history.
C2_Witness ==
    /\ pc = "idle"
    /\ ret.err # "nil"
    /\ response.status = 200 /\ response.json = "ok" /\ response.choices = <<>>
    /\ Len(conversationHistory) >= 3
    /\ conversationHistory[Len(conversationHistory)].Role = "user"
    /\ conversationHistory[Len(conversationHistory)].Content = question

\* C6: the turn log is append-only: every step keeps every stored turn at its
\* position with its role, content and timestamp, also once the history is
\* longer than the 20-turn window sent to the backend.
C6_AppendOnly ==
    [][ /\ Len(conversationHistory') >= Len(conversationHistory)
        /\ \A i \in 1..Len(conversationHistory) :
              conversationHistory'[i] = conversationHistory[i]
      ]_vars

\* C6 witness: more than 20 turns are stored, a windowed request has been
\* answered and the history command shows them all.
C6_Witness ==
    /\ pc = "idle"
    /\ Len(conversationHistory) > 20
    /\ Len(messages) = 21
    /\ ret.err = "nil"
    /\ shown = Len(conversationHistory)

(***************************************************************************)
(* Claims about the vector store, checked under SpecStore.                 *)
(***************************************************************************)
\* The place in the table of the row a result was read from.
RowOf(result) == CHOOSE i \in 1..Len(documents) : documents[i].id = result.ID

\* Row i ranks before row j: more similar to q, or as similar and inserted earlier.
RanksBefore(i, j, q) ==
    LET si == Similarity(documents[i].embedding, q)
        sj == Similarity(documents[j].embedding, q)
    IN  \/ ~SimGE(sj, si)
        \/ (SimEq(si, sj) /\ i < j)

\* C7: search returns at most k results, exactly the entries of highest
\* cosine similarity to the query, in descending similarity, entries of equal
\* similarity in insertion order.
C7_SearchExactStableTopK ==
    (storeRet.op = "search" /\ storeRet.err = "nil" /\ VecLen(storeRet.embedding) = Dim) =>
        LET res == storeRet.results
            q == storeRet.embedding
        IN  /\ Len(res) = Min(storeRet.topK, Len(documents))
            /\ \A i \in 1..Len(res) :
                  /\ \E r \in 1..Len(documents) : documents[r].id = res[i].ID
                  /\ res[i] = SearchResult(documents[RowOf(res[i])], q)
            /\ \A i \in 1..(Len(res) - 1) : RanksBefore(RowOf(res[i]), RowOf(res[i + 1]), q)
            /\ \A r \in 1..Len(documents) :
                  (\A i \in 1..Len(res) : RowOf(res[i]) # r) =>
                      \A i \in 1..Len(res) : RanksBefore(RowOf(res[i]), r, q)

\* The table holds an entry for this chunk and embedding.
Holds(docs, chunk, embedding) ==
    \E i \in 1..Len(docs) :
        /\ docs[i].content = chunk.Content
        /\ docs[i].source = chunk.Source
        /\ docs[i].embedding = embedding

\* C8: storing an entry that is already stored replaces it and leaves count
\* unchanged, and storing a new one increases count by exactly one: storing
\* the same chunk twice leaves the index as after storing it once.
C8_StoreIsUpsert ==
    [][ (uuids' # uuids /\ storeRet'.err = "nil") =>
            IF Holds(documents, storeRet'.chunk, storeRet'.embedding)
            THEN documents' = documents
            ELSE CountRows(documents') = CountRows(documents) + 1
      ]_vars

\* C9: an upsert or a search given a vector whose length is not 384 fails and
\* leaves the index unchanged, and every stored vector has length 384.
C9_DimensionMismatchFails ==
    /\ [](\A i \in 1..Len(documents) : VecLen(documents[i].embedding) = 384)
    /\ [][ (storeRet'.op \in {"store", "search"} /\ storeRet'.db = "ok"
              /\ VecLen(storeRet'.embedding) # 384) =>
                (storeRet'.err # "nil" /\ documents' = documents)
         ]_vars

\* C10: a search with a well-formed query on an index holding no entry returns
\* an empty sequence and no error, and after a clear the index holds no entry.
C10_EmptyIndexSearch ==
    /\ (storeRet.op = "search" /\ storeRet.db = "ok" /\ VecLen(storeRet.embedding) = Dim
          /\ documents = <<>>) =>
            (storeRet.err = "nil" /\ storeRet.results = <<>>)
    /\ (storeRet.op = "clear" /\ storeRet.db = "ok") =>
            (storeRet.err = "nil" /\ CountRows(documents) = 0)

\* C10 witness: ids have been handed out to stores, the table is empty again
\* and a search on it returned no row and no error.
C10_Witness ==
    /\ storeRet.op = "search" /\ storeRet.db = "ok"
    /\ VecLen(storeRet.embedding) = Dim
    /\ uuids >= 2
    /\ documents = <<>>
    /\ storeRet.err = "nil" /\ storeRet.results = <<>>
(***************************************************************************)
(* Claims about switching and concurrent callers, checked under SpecConc.  *)
(***************************************************************************)
\* The backend identifier a turn of the log carries: none, if the record has no such field.
Tag(turn) == IF "Backend" \in DOMAIN turn THEN turn.Backend ELSE ""

\* C3: if switchBackend completes while a query's generate call is in flight,
\* that call runs to completion against the backend it captured when it was
\* sent (the switch changes neither its model nor its messages), and the
\* assistant turn it appends is tagged with the identifier of that backend.
C3_SwitchMidFlightTagsSnapshot ==
    [][\A g \in Callers :
          /\ (callers[g].pc = "inflight" /\ switches' # switches)
                => /\ callers'[g].model = callers[g].model
                   /\ callers'[g].messages = callers[g].messages
          /\ (callers[g].switched /\ callers[g].pc = "storeAsst" /\ callers'[g].pc = "idle")
                => /\ conversationHistory' # <<>>
                   /\ conversationHistory'[Len(conversationHistory')].Role = "assistant"
                   /\ Tag(conversationHistory'[Len(conversationHistory')]) = callers[g].model
      ]_vars

\* The provider names of section 4.5 of the specification.
SupportedProviders == {"groq", "openai", "anthropic", "gemini", "openrouter"}

\* C4: one backend is active at any time; switchBackend with a recognized
\* provider name makes that provider the active backend and reports no error;
\* with any other name it reports an error and leaves the active backend and
\* the turn log as they were.
C4_OneActiveBackend ==
    /\ [](config.Provider \in SupportedProviders)
    /\ [][switches' # switches =>
            IF switchRet'.provider \in SupportedProviders
            THEN /\ switchRet'.err = "nil"
                 /\ config'.Provider = switchRet'.provider
            ELSE /\ switchRet'.err # "nil"
                 /\ config' = config
                 /\ conversationHistory' = conversationHistory
         ]_vars

\* C4 witness: with turns in the log, a switch to a recognized provider has
\* replaced the backend while a call was in flight, and a later switch to an
\* unrecognized name has failed and left that backend active.
C4_Witness ==
    /\ switches = 2
    /\ switchRet.provider = "OpenAI"
    /\ switchRet.err # "nil"
    /\ config.Provider \in {"openai", "gemini"}
    /\ conversationHistory # <<>>
    /\ \E g \in Callers : callers[g].switched

\* A caller is inside an append: it has read the log and not yet written it back.
InAppend(g) == callers[g].pc \in {"storeUser", "storeAsst"}

\* C5: no lock is held across the generate call, so the history can be read
\* while a query is in flight; and every append is mutually exclusive with
\* every other append.
C5_AppendsMutuallyExclusive ==
    /\ (\E g \in Callers : callers[g].pc = "inflight") => ENABLED ReadHistory
    /\ \A g, h \in Callers : (g # h /\ InAppend(g)) => ~InAppend(h)

(***************************************************************************)
(* Claims about the LLM clients, checked under SpecLLM.                    *)
(***************************************************************************)
\* C11: NewClient returns a backend, and no error, for each of the provider
\* names groq, openai, anthropic, gemini and openrouter, and an unsupported-
\* provider error with no backend for every other name, the empty name and
\* differently-cased names included; a call changes nothing but its own
\* result and issues no network call.
C11_RegistryCreate ==
    /\ [](llmCreate.called =>
            IF llmCreate.provider \in {"groq", "openai", "anthropic", "gemini", "openrouter"}
            THEN /\ llmCreate.err = "nil"
                 /\ llmCreate.client = [Provider |-> llmCreate.provider,
                                        Model |-> llmCreate.model]
            ELSE /\ llmCreate.err = "unsupported LLM provider"
                 /\ llmCreate.client = NoClient)
    /\ [][llmCreate' # llmCreate =>
            /\ httpCalls' = httpCalls
            /\ UNCHANGED <<baseVars, llmPc, llmRet>>]_vars

\* C11 witness: after a Gemini client was created and used for a request,
\* NewClient has refused the name "OpenAI".
C11_Witness ==
    /\ llmCreate.called
    /\ llmCreate.provider = "OpenAI"
    /\ llmCreate.err # "nil"
    /\ llmClient.Provider = "gemini"
    /\ httpCalls >= 1

\* The response reached the client: the transport and the read of the body succeeded.
Arrived(resp) == resp.do = "ok" /\ resp.read = "ok"

HasContent(provider, candidates) ==
    /\ Len(candidates) >= 1
    /\ provider = "gemini" => Len(candidates[1]) >= 1

C15_ChunkContentBounded ==
    \A k \in 1..Len(chunks) :
        /\ chunks[k].Content # <<>>
        /\ Len(chunks[k].Content) <= chunkCall.e.config.ChunkSize

\* C15 witness: ChunkText has returned three or more chunks, one of them a
\* full window and an earlier one shortened by trimming.
C15_Witness ==
    /\ chunkPc = "done"
    /\ Len(chunks) >= 3
    /\ \E k \in 1..Len(chunks) : Len(chunks[k].Content) = chunkCall.e.config.ChunkSize
    /\ \E k \in 1..(Len(chunks) - 1) : Len(chunks[k].Content) < chunkCall.e.config.ChunkSize

\* C16: of the chunks ChunkText returns, each consecutive pair whose second
\* member is not the last chunk shares exactly overlap characters: the last
\* overlap characters of the earlier content are the first overlap characters
\* of the later content.
C16_ConsecutiveChunksOverlap ==
    chunkPc = "done" =>
        \A k \in 1..(Len(chunks) - 2) :
            LET ov == chunkCall.e.config.ChunkOverlap
                a == chunks[k].Content
                b == chunks[k + 1].Content
            IN  /\ Len(a) >= ov
                /\ Len(b) >= ov
                /\ SubSeq(a, Len(a) - ov + 1, Len(a)) = SubSeq(b, 1, ov)

\* The contents of the first n chunks in order, each after the first without
\* its first ov characters.
RECURSIVE Rebuild(_, _, _)
Rebuild(cs, ov, n) ==
    IF n = 0 THEN <<>>
    ELSE IF n = 1 THEN cs[1].Content
    ELSE Rebuild(cs, ov, n - 1) \o SubSeq(cs[n].Content, ov + 1, Len(cs[n].Content))

\* The text without its leading and trailing white space, by position.
Stripped(t) ==
    LET solid == {k \in 1..Len(t) : ~IsSpace(t[k])}
    IN  IF solid = {} THEN <<>>
        ELSE SubSeq(t, CHOOSE k \in solid : \A m \in solid : k <= m,
                       CHOOSE k \in solid : \A m \in solid : k >= m)

\* C17: the contents of the returned chunks, concatenated in order with the
\* first overlap characters of every chunk after the first dropped, are the
\* text with its leading and trailing white space removed.
C17_ChunksReconstructText ==
    chunkPc = "done" =>
        Rebuild(chunks, chunkCall.e.config.ChunkOverlap, Len(chunks)) = Stripped(chunkCall.text)

\* C18: ChunkText terminates: every iteration whose window ends before the
\* end of the text, a skipped blank window included, moves the window start
\* on by chunkSize - overlap and loops again; the iteration whose window
\* reaches the end of the text is the last; a started loop ends; and an empty
\* or white-space-only text yields no chunks.
C18_ChunkTerminates ==
    /\ [][chunkPc = "loop" =>
            LET size == chunkCall.e.config.ChunkSize
                ov == chunkCall.e.config.ChunkOverlap
            IN  IF chunkI + size >= Len(chunkText)
                THEN chunkPc' = "done"
                ELSE chunkPc' = "loop" /\ chunkI' = chunkI + (size - ov)]_vars
    /\ [](chunkPc = "done" /\ (\A k \in 1..Len(chunkCall.text) : IsSpace(chunkCall.text[k]))
             => chunks = <<>>)
    /\ (chunkPc = "loop") ~> (chunkPc = "done")

\* C18 witness: a call has returned chunks after more iterations than it
\* returned chunks, so a blank window was skipped on the way.
C18_Witness ==
    /\ chunkPc = "done"
    /\ chunks # <<>>
    /\ Len(chunks) * (chunkCall.e.config.ChunkSize - chunkCall.e.config.ChunkOverlap) <= chunkI

C20_EmbedUnitNorm ==
    \A k \in 1..Len(embedCalls) :
        embedCalls[k].text # <<>> =>
            LET v == embedCalls[k].embedding
                squares == SumSq(v.head, Len(v.head)) * v.num * v.num
                diff == IF squares >= v.den * v.den THEN squares - v.den * v.den
                        ELSE v.den * v.den - squares
            IN  diff <= (v.den * v.den) \div 1000

(***************************************************************************)
(* Claims about the retrieval Query, checked under SpecRAG.                *)
(***************************************************************************)
\* The source an entry of the context block names: none, if it has no such field.
SourceOf(entry) == IF "Source" \in DOMAIN entry THEN entry.Source ELSE ""

\* C13: when the search returns no results the prompt sent to the model is
\* the bare question; when it returns results the prompt is the question
\* preceded by a context block listing every result's source, similarity and
\* content in result order.
C13_PromptFromResults ==
    ragPc = "inflight" =>
        /\ rag.prompt.question = rag.question
        /\ rag.results = <<>> => rag.prompt = BarePrompt(rag.question)
        /\ rag.results # <<>> =>
            /\ Len(rag.prompt.context.documents) = Len(rag.results)
            /\ \A k \in 1..Len(rag.results) :
                  /\ SourceOf(rag.prompt.context.documents[k]) = rag.results[k].Source
                  /\ rag.prompt.context.documents[k].Similarity.value = rag.results[k].Similarity
                  /\ rag.prompt.context.documents[k].Content = rag.results[k].Content

\* C13 as amended: the prompt sent to the model is always the question inside
\* the template "\n\nQuestion: ...\n\nAnswer based on the context above:";
\* when the search returns no results nothing precedes the template, and when
\* it returns results the template is preceded by a block headed "Context:"
\* that lists every result's ordinal, similarity (two decimals) and content in
\* result order, and not its source.
C13_PromptFromResultsAmended ==
    ragPc = "inflight" =>
        /\ rag.prompt.question = rag.question
        /\ rag.prompt.before = "\n\nQuestion: "
        /\ rag.prompt.after = "\n\nAnswer based on the context above:"
        /\ rag.messages = <<[Role |-> "system", Content |-> config.SystemPrompt],
                            [Role |-> "user", Content |-> rag.prompt]>>
        /\ rag.results = <<>> =>
              rag.prompt.context = [header |-> "", documents |-> <<>>]
        /\ rag.results # <<>> =>
            /\ rag.prompt.context.header = "Context:\n"
            /\ Len(rag.prompt.context.documents) = Len(rag.results)
            /\ \A k \in 1..Len(rag.results) :
                  rag.prompt.context.documents[k] =
                      [Document |-> k,
                       Similarity |-> [format |-> "%.2f", value |-> rag.results[k].Similarity],
                       Content |-> rag.results[k].Content]

\* C13 witness: a request is in flight whose search returned two results of
\* different content.
C13_Witness ==
    /\ ragPc = "inflight"
    /\ Len(rag.results) >= 2
    /\ rag.results[1].Content # rag.results[2].Content

\* The completion step failed: the exchange did not end in a 200 response
\* whose body parses and holds a choice.
GenerationFailed(resp) ==
    ~(resp.do = "ok" /\ resp.read = "ok" /\ resp.status = 200 /\ resp.json = "ok"
        /\ Len(resp.choices) >= 1)

\* C14: the retrieval Query returns an error whenever the embedding, the
\* search or the completion fails, and that error is the failed step's error
\* itself; no step is tried twice; and when the embedding or the search fails
\* no completion request is sent.
C14_ErrorsPropagateUnchanged ==
    ragRet.done =>
        /\ rag.embeds <= 1 /\ rag.searches <= 1 /\ rag.generates <= 1
        /\ rag.embedErr # "nil" =>
              ragRet.err = Error(rag.embedErr, "none") /\ rag.generates = 0
        /\ rag.searchErr # "nil" =>
              ragRet.err = Error(rag.searchErr, "none") /\ rag.generates = 0
        /\ (rag.generates = 1 /\ GenerationFailed(ragRet.resp)) => ragRet.err # NilError

\* C14 as amended: the retrieval Query returns an error whenever the
\* embedding, the search or the completion fails; the error of a failed
\* embedding or search is returned wrapped in an error naming the step, not
\* unchanged; no step is tried twice; and when the embedding or the search
\* fails no completion request is sent.
C14_ErrorsPropagateWrapped ==
    ragRet.done =>
        /\ rag.embeds <= 1 /\ rag.searches <= 1 /\ rag.generates <= 1
        /\ rag.embedErr # "nil" =>
              /\ ragRet.err = [msg |-> "failed to get query embedding", cause |-> rag.embedErr]
              /\ rag.generates = 0
        /\ rag.searchErr # "nil" =>
              /\ ragRet.err = [msg |-> "failed to search documents", cause |-> rag.searchErr]
              /\ rag.generates = 0
        /\ (rag.generates = 1 /\ GenerationFailed(ragRet.resp)) => ragRet.err # NilError
        /\ (rag.generates = 1 /\ ~GenerationFailed(ragRet.resp)) => ragRet.err = NilError

\* C14 witness: with chunks in the store, a Query whose search failed has
\* returned its error without sending a completion request.
C14_Witness ==
    /\ ragRet.done
    /\ rag.searchErr # "nil"
    /\ documents # <<>>
    /\ rag.searches = 1
    /\ rag.generates = 0
    /\ ragRet.err # NilError

(***************************************************************************)
(* Claims about the start of the program, checked under SpecIngest.        *)
(***************************************************************************)
\* The run has loaded data.txt alone, of DocLen characters, and has come to
\* the end of the loop that stores the chunks.
IngestedDocument ==
    /\ mainPc = "chat"
    /\ mainRun.stored # -1
    /\ mainRun.existingFiles = <<"data.txt">>
    /\ Len(disk["data.txt"]) = DocLen

\* Every chunk of the run is a row of the table, in order, with its embedding,
\* and the table has no other row.
StoredWithEmbeddings ==
    /\ Len(documents) = Len(mainRun.chunks)
    /\ \A k \in 1..Len(documents) :
          /\ documents[k].content = mainRun.chunks[k].Content
          /\ documents[k].embedding
               = GetEmbedding(MainEmbedder, mainRun.chunks[k].Content).embedding

ThreeWindows(doc) ==
    /\ Len(TrimSpace(doc)) > 950
    /\ ~IsBlank(SubSeq(TrimSpace(doc), 451, 950))

C22_OrdinalsInEmissionOrder ==
    /\ Len(chunkStarts) = Len(chunks)
    /\ \A k \in 1..Len(chunks) :
          /\ chunks[k].Metadata.chunk = ToString(k - 1)
          /\ chunks[k].Content
               = TrimSpace(Window(chunkText, chunkStarts[k],
                                  WindowEnd(chunkCall.e, chunkText, chunkStarts[k])))
    /\ \A k \in 1..(Len(chunks) - 1) : chunkStarts[k] < chunkStarts[k + 1]

\* C22 witness: ChunkText has returned two or more chunks, and between two
\* consecutive ones a window was skipped.
C22_Witness ==
    /\ chunkPc = "done"
    /\ \E k \in 1..(Len(chunks) - 1) :
          chunkStarts[k + 1] - chunkStarts[k] > ChunkStep(chunkCall.e)
(***************************************************************************)
(* A claim about the clients' request bodies, checked under SpecWire.      *)
(***************************************************************************)
\* The turns of the last call that are not system turns, and its last system turn.
NonSystem(msgs) == SelectSeq(msgs, LAMBDA m : m.Role # "system")

HasSystem(msgs) == \E k \in 1..Len(msgs) : msgs[k].Role = "system"

LastSystem(msgs) ==
    msgs[CHOOSE k \in 1..Len(msgs) :
            /\ msgs[k].Role = "system"
            /\ \A j \in (k + 1)..Len(msgs) : msgs[j].Role # "system"]

\* C23: in the request body a Gemini or Anthropic client builds from any
\* sequence of turns, the message list holds no system turn and has one entry
\* per non-system turn, in the same order and with the same content, its role
\* model for assistant and user for user with Gemini, and the turn's own role
\* with Anthropic; the system field carries the content of the system turn
\* (of the last one if there are several) and is absent or empty if there is
\* none.
C23_SystemTurnSeparated ==
    wire.provider \in {"gemini", "anthropic"} =>
        LET msgs == wire.messages
            others == NonSystem(msgs)
            gemini == wire.provider = "gemini"
            list == IF gemini THEN wire.body.Contents ELSE wire.body.Messages
            Role(k) == list[k].Role
            Content(k) == IF gemini THEN list[k].Parts[1].Text ELSE list[k].Content
        IN  /\ Len(list) = Len(others)
            /\ \A k \in 1..Len(list) :
                  /\ Role(k) # "system"
                  /\ Content(k) = others[k].Content
                  /\ gemini => Len(list[k].Parts) = 1
                  /\ Role(k) = IF gemini /\ others[k].Role = "assistant" THEN "model"
                               ELSE others[k].Role
            /\ IF gemini
               THEN /\ wire.body.SystemInstruction.set = HasSystem(msgs)
                    /\ HasSystem(msgs) =>
                         wire.body.SystemInstruction.content.Parts
                           = <<[Text |-> LastSystem(msgs).Content]>>
               ELSE wire.body.System
                      = IF HasSystem(msgs) THEN LastSystem(msgs).Content ELSE ""

\* C23 witness: a Gemini client has built a body from turns in which a system
\* turn stands between a user turn and an assistant turn.
C23_Witness ==
    /\ wire.provider = "gemini"
    /\ Len(wire.messages) = 3
    /\ wire.messages[1].Role = "user"
    /\ wire.messages[2].Role = "system"
    /\ wire.messages[3].Role = "assistant"
    /\ wire.body.Contents[2].Role = "model"
(***************************************************************************)
(* Claims about RunInteractive, checked under SpecLoop and SpecLoopFair.   *)
(***************************************************************************)
\* The last call of Query has not returned.
AwaitingResponse == calls # <<>> /\ calls[Len(calls)].state = "inflight"

\* C24: in the RunInteractive of chat.go the streaming flag is set exactly
\* while a call of Query is awaited; it becomes set only on the step that
\* takes a question line and calls Query, and is clear once that call has
\* returned, with an error or without; while it is set no reader goroutine is
\* alive, nothing is read from standard input and no other call of Query is
\* made; and only RunInteractive's own goroutine ever reads or writes it.
C24_TwoStateSession ==
    /\ [](loopVersion = "chat.go" =>
            /\ streaming = (loopPc = "query")
            /\ streaming = AwaitingResponse
            /\ streaming => readers = <<>>
            /\ \A k \in 1..(Len(calls) - 1) : calls[k].state # "inflight"
            /\ flagUse \subseteq {"main"})
    /\ [][loopVersion = "chat.go" =>
            /\ (~streaming /\ streaming') =>
                  /\ loopPc = "recv"
                  /\ InputKind(input') = "question"
                  /\ calls' = Append(calls, QueryCall(TrimSpace(input')))
            /\ streaming =>
                  /\ stdin' = stdin
                  /\ Len(calls') = Len(calls)
                  /\ calls' # calls => ~streaming']_vars

\* C24 witness: in chat.go's loop a call of Query has failed and the session
\* is back at the top of the loop with the flag clear, after the flag was
\* used by the goroutine of RunInteractive.
C24_Witness ==
    /\ loopVersion = "chat.go"
    /\ loopPc = "top"
    /\ calls # <<>>
    /\ calls[Len(calls)].state = "failed"
    /\ ~streaming
    /\ flagUse = {"main"}
\* C25: once standard input is at its end or has failed, a running
\* RunInteractive eventually has left its loop and returned, with no reader
\* goroutine alive; and so it has once the line exit or quit has been taken.
C25_InputEndReturns ==
    /\ (loopPc # "none" /\ stdin.state \in {"eof", "error"})
          ~> (loopPc = "returned" /\ readers = <<>>)
    /\ (loopPc = "after" /\ InputKind(input) = "exit")
          ~> (loopPc = "returned" /\ readers = <<>>)
\* The step runs the loop body on a line: input' is that line.
TookLine ==
    \/ loopVersion = "chat.go" /\ loopPc = "recv" /\ loopPc' # "recv"
    \/ loopVersion = "part_001" /\ loopPc = "top" /\ stdin'.read = stdin.read + 1

CommandWords ==
    { <<"h", "i", "s", "t", "o", "r", "y">>, <<"c", "l", "e", "a", "r">>,
      <<"e", "x", "i", "t">>, <<"q", "u", "i", "t">> }

RECURSIVE UserTurns(_, _)
UserTurns(hist, n) ==
    IF n = 0 THEN <<>>
    ELSE IF hist[n].Role = "user" THEN Append(UserTurns(hist, n - 1), n)
    ELSE UserTurns(hist, n - 1)

Successes(cs) == Cardinality({k \in 1..Len(cs) : cs[k].state = "ok"})

\* C27: whenever no call of Query is in progress, the history holds one user
\* turn per call made, in call order and with the call's question; the turn
\* right after the user turn of a call is an assistant turn exactly when that
\* call succeeded, and every assistant turn stands right after a user turn;
\* and the length of the history is the number of calls plus the number of
\* successful calls.
C27_HistoryShape ==
    pc = "idle" =>
        LET hist == conversationHistory
            users == UserTurns(hist, Len(hist))
        IN  /\ Len(users) = Len(calls)
            /\ \A k \in 1..Len(users) :
                  /\ hist[users[k]].Content = calls[k].question
                  /\ calls[k].state \in {"ok", "failed"}
                  /\ calls[k].state = "ok"
                       <=> (users[k] < Len(hist) /\ hist[users[k] + 1].Role = "assistant")
            /\ \A i \in 1..Len(hist) :
                  hist[i].Role = "assistant" => (i > 1 /\ hist[i - 1].Role = "user")
            /\ Len(hist) = Len(calls) + Successes(calls)

\* C27 witness: three calls have returned, the second of them failed, so two
\* user turns stand side by side between two answered ones.
C27_Witness ==
    /\ pc = "idle"
    /\ Len(calls) = 3
    /\ calls[1].state = "ok" /\ calls[2].state = "failed" /\ calls[3].state = "ok"
    /\ Len(conversationHistory) = 5
    /\ conversationHistory[3].Role = "user" /\ conversationHistory[4].Role = "user"
(***************************************************************************)
(* A further claim about the start of the program, checked under           *)
(* SpecIngest.                                                             *)
(***************************************************************************)
\* C28: a run loads and stores chunks only if it counted 0 rows; a run that
\* has finished storing holds in the table every chunk whose embedding and
\* store operations succeeded, whatever happened to the others; and the
\* number it reports as stored is the number of rows then in the table.
C28_ReportMatchesStore ==
    /\ (mainPc \in {"files", "process", "store"} \/ mainRun.stored # -1) => mainRun.count = 0
    /\ (mainPc = "chat" /\ mainRun.stored # -1) =>
          /\ Len(documents) = Len(mainRun.chunks) - Len(mainRun.logged)
          /\ mainRun.stored = Len(documents)
====
